---- MODULE Spec2Model ----
(***************************************************************************)
(* A model of the DoubleRange widget (src/src/double-range.ts): the value  *)
(* model (min, max, from, to, step), the drag / keyboard / click state     *)
(* machine, the debounced notification timer and the attach / teardown     *)
(* lifecycle.                                                              *)
(*                                                                         *)
(* Numbers are modelled as integers (the code uses IEEE doubles; rounding  *)
(* error of the floating-point arithmetic and NaN arguments of the public   *)
(* methods are outside the model).  Every                                  *)
(* handler is a function from the instance's fields (a record) to the      *)
(* fields after the handler returned; an action installs that record.      *)
(***************************************************************************)
EXTENDS Integers, Sequences, FiniteSets, TLC

\* ------------------------------------------------------------------ bounds

\* Values of min, max, from, to and of the setters' arguments: -1..MaxVal.
MaxVal == 2
Vals == (0 - 1)..MaxVal

\* step is drawn from 1..MaxStep.
MaxStep == 2

\* Timer ids the environment's setTimeout can hand out.
MaxTimerIds == 3
TimerIds == 1..MaxTimerIds

\* Geometry of the track (getBoundingClientRect) and the pointer positions tried.
DomTrackRect == [left |-> 2, width |-> 4]
MaxPointerX == 7
PointerXs == 0..MaxPointerX

\* ------------------------------------------------- numbers and attribute text

Digits == <<"0", "1", "2", "3", "4", "5", "6", "7", "8", "9">>

RECURSIVE NatToString(_)
\* Number.prototype.toString() of a non-negative integer.
NatToString(n) ==
    IF n < 10 THEN <<Digits[n + 1]>>
    ELSE NatToString(n \div 10) \o <<Digits[(n % 10) + 1]>>

\* `${n}` / n.toString() of an integer.
NumToString(n) == IF n < 0 THEN <<"-">> \o NatToString(0 - n) ELSE NatToString(n)

DigitValue(c) == CHOOSE d \in 0..9 : Digits[d + 1] = c

IsDigit(c) == \E d \in 0..9 : Digits[d + 1] = c

RECURSIVE ParseDigits(_, _)
\* The value of the longest prefix of digits of s, acc being the value so far.
ParseDigits(s, acc) ==
    IF s = <<>> \/ ~IsDigit(Head(s)) THEN acc
    ELSE ParseDigits(Tail(s), acc * 10 + DigitValue(Head(s)))

\* A parsed number is [nan |-> BOOLEAN, val |-> Int]; NaN is falsy, and so is 0.
NaN == [nan |-> TRUE, val |-> 0]
Num(n) == [nan |-> FALSE, val |-> n]

\* parseFloat(s) on the integer literals the markup holds: an optional sign, then
\* digits; NaN when no digit follows.
ParseFloat(s) ==
    LET neg == s # <<>> /\ Head(s) = "-"
        body == IF neg THEN Tail(s) ELSE s
    IN  IF body = <<>> \/ ~IsDigit(Head(body)) THEN NaN
        ELSE Num(IF neg THEN 0 - ParseDigits(body, 0) ELSE ParseDigits(body, 0))

\* JavaScript truthiness of a number: NaN and 0 are falsy.
Truthy(p) == ~p.nan /\ p.val # 0

\* The formatter is a function of the host application; it is modelled as an
\* uninterpreted injective tagging of the value it is applied to.
Formatter(v) == <<"formatted", v>>

\* ------------------------------------------------------------------- state

VARIABLES
    minValue,          \* #minValue
    maxValue,          \* #maxValue
    step,              \* #step
    fromValue,         \* #fromValue
    toValue,           \* #toValue
    isDragging,        \* #isDragging: "null", "from" or "to"
    duringDrag,        \* #duringDrag
    callbackTimer,     \* #callbackTimer: 0 for null, else the id setTimeout returned
    destroyed,         \* #destroyed
    beforeFromChange,  \* #beforeFromChange !== null
    beforeToChange,    \* #beforeToChange !== null
    trackRect,         \* #trackRect, the cached rectangle of the track
    fromThumb,         \* the from handle's aria-* attributes
    toThumb,           \* the to handle's aria-* attributes
    timers,            \* the environment's armed timeouts (ids)
    map,               \* DoubleRange.#map.has(this.#div)
    modifyObserver,    \* #modifyObserver !== null (the observer is connected)
    isInitObservation, \* the observer closure's isInitObservation
    thumbListeners,    \* the handle and track listeners of #initEvents are attached
    docListeners,      \* the document-level move/up listeners are attached
    page,              \* the document's containers, the instances and #map
    labels,            \* the two value labels: their geometry and style.left
    last               \* the last operation: its inputs, outcome and pre-state

vars == <<minValue, maxValue, step, fromValue, toValue, isDragging, duringDrag,
          callbackTimer, destroyed, beforeFromChange, beforeToChange, trackRect,
          fromThumb, toThumb, timers, map, modifyObserver,
          isInitObservation, thumbListeners, docListeners, page, labels,
          last>>

\* The instance's fields and the environment it acts on, as one record.
Cur ==
    [minValue |-> minValue, maxValue |-> maxValue, step |-> step,
     fromValue |-> fromValue, toValue |-> toValue,
     isDragging |-> isDragging, duringDrag |-> duringDrag,
     callbackTimer |-> callbackTimer, destroyed |-> destroyed,
     beforeFromChange |-> beforeFromChange, beforeToChange |-> beforeToChange,
     trackRect |-> trackRect, fromThumb |-> fromThumb, toThumb |-> toThumb,
     timers |-> timers, map |-> map,
     modifyObserver |-> modifyObserver, isInitObservation |-> isInitObservation,
     thumbListeners |-> thumbListeners,
     docListeners |-> docListeners,
     ret |-> "none", guardLog |-> <<>>, nested |-> 0]

\* The record of one operation, with the fields an operation does not use at
\* their defaults.
NoCall ==
    [op |-> "none", type |-> "none", v |-> 0, o |-> <<>>, fire |-> TRUE,
     key |-> "none", x |-> 0, ret |-> "none", guardLog |-> <<>>,
     nested |-> 0, delivered |-> <<>>, isConnected |-> TRUE, pre |-> <<>>,
     c |-> 0, i |-> 0, threw |-> FALSE, page |-> <<>>, m |-> <<>>,
     rect |-> <<>>]

\* No operation is on record: the previous one has been observed.
Ready == last.op = "none"

\* The fields of s become the next state, and c records the operation with its
\* pre-state.
Install(s, c, before) ==
    /\ minValue' = s.minValue
    /\ maxValue' = s.maxValue
    /\ step' = s.step
    /\ fromValue' = s.fromValue
    /\ toValue' = s.toValue
    /\ isDragging' = s.isDragging
    /\ duringDrag' = s.duringDrag
    /\ callbackTimer' = s.callbackTimer
    /\ destroyed' = s.destroyed
    /\ beforeFromChange' = s.beforeFromChange
    /\ beforeToChange' = s.beforeToChange
    /\ trackRect' = s.trackRect
    /\ fromThumb' = s.fromThumb
    /\ toThumb' = s.toThumb
    /\ timers' = s.timers
    /\ map' = s.map
    /\ modifyObserver' = s.modifyObserver
    /\ isInitObservation' = s.isInitObservation
    /\ thumbListeners' = s.thumbListeners
    /\ docListeners' = s.docListeners
    /\ page' = page
    /\ labels' = labels
    /\ last' = [c EXCEPT !.ret = s.ret, !.guardLog = s.guardLog,
                         !.nested = s.nested, !.pre = before]

\* ------------------------------------------------------ notification timer

\* Mutant: clearTimeout disarms nothing.
ClearTimeoutKeepsArmed(armed, id) == armed

\* clearTimeout(id): the timeout of that id, if armed, is disarmed.
ClearTimeout(armed, id) == armed \ {id}

\* The id window.setTimeout returns: one that names no armed timeout.
SetTimeoutId(armed) == CHOOSE id \in TimerIds \ armed : \A j \in TimerIds \ armed : id <= j

\* Mutant: a timer is armed also while a drag is in progress.
ScheduleCallbackNoDragCheck(s) ==
    LET cleared == IF s.callbackTimer # 0
                   THEN [s EXCEPT !.timers = ClearTimeout(@, s.callbackTimer)]
                   ELSE s
        id == SetTimeoutId(cleared.timers)
    IN  [cleared EXCEPT !.callbackTimer = id, !.timers = @ \cup {id}]

\* #scheduleCallback
ScheduleCallback(s) ==
    LET cleared == IF s.callbackTimer # 0
                   THEN [s EXCEPT !.timers = ClearTimeout(@, s.callbackTimer)]
                   ELSE s
    IN  IF cleared.duringDrag THEN cleared
        ELSE LET id == SetTimeoutId(cleared.timers)
             IN  [cleared EXCEPT !.callbackTimer = id, !.timers = @ \cup {id}]

\* -------------------------------------------------------------- value model

\* The depth of corrective self-calls at which the engine's call stack counts
\* as exhausted.  A corrective self-call passes the same argument as the one
\* before it and no field is written between the two, so a call that nests
\* more than twice nests without end, and the engine ends it with a RangeError
\* ('Maximum call stack size exceeded'; the result "StackOverflow").
MaxCallDepth == 3

\* One evaluation of a guard predicate, as the log keeps it.
GuardEval(side, f, t, res) == [side |-> side, from |-> f, to |-> t, res |-> res]

RECURSIVE SetFrom(_, _, _, _)
\* Mutant: the guard's answer is not looked at.
SetFromGuardIgnored(s, from, fireCallback, ans) ==
    IF from < s.minValue \/ from > s.maxValue THEN [s EXCEPT !.ret = "false"]
    ELSE IF from >= s.toValue
    THEN IF s.nested >= MaxCallDepth THEN [s EXCEPT !.ret = "StackOverflow"]
         ELSE LET inner == SetFrom([s EXCEPT !.nested = @ + 1],
                                   s.toValue - s.step, TRUE, ans)
              IN  IF inner.ret = "StackOverflow" THEN inner
                  ELSE [inner EXCEPT !.ret = "false"]
    ELSE LET logged == IF s.beforeFromChange
                       THEN [s EXCEPT !.guardLog =
                                Append(@, GuardEval("from", from, s.toValue, ans))]
                       ELSE s
             written == [logged EXCEPT
                            !.fromValue = from,
                            !.fromThumb.valuenow = NumToString(from),
                            !.fromThumb.valuetext = Formatter(from),
                            !.ret = "this"]
         IN  IF fireCallback THEN ScheduleCallback(written) ELSE written

\* setFrom(from, fireCallback); ans is what the beforeFromChange guard answers
\* if this call evaluates it.
SetFrom(s, from, fireCallback, ans) ==
    IF from < s.minValue \/ from > s.maxValue THEN [s EXCEPT !.ret = "false"]
    ELSE IF from >= s.toValue
    THEN IF s.nested >= MaxCallDepth THEN [s EXCEPT !.ret = "StackOverflow"]
         ELSE LET inner == SetFrom([s EXCEPT !.nested = @ + 1],
                                   s.toValue - s.step, TRUE, ans)
              IN  IF inner.ret = "StackOverflow" THEN inner
                  ELSE [inner EXCEPT !.ret = "false"]
    ELSE IF from = s.toValue THEN [s EXCEPT !.ret = "false"]
    ELSE IF s.beforeFromChange /\ ~ans
    THEN [s EXCEPT !.ret = "false",
                   !.guardLog = Append(@, GuardEval("from", from, s.toValue, ans))]
    ELSE LET logged == IF s.beforeFromChange
                       THEN [s EXCEPT !.guardLog =
                                Append(@, GuardEval("from", from, s.toValue, ans))]
                       ELSE s
             written == [logged EXCEPT
                            !.fromValue = from,
                            !.fromThumb.valuenow = NumToString(from),
                            !.fromThumb.valuetext = Formatter(from),
                            !.ret = "this"]
         IN  IF fireCallback THEN ScheduleCallback(written) ELSE written

RECURSIVE SetTo(_, _, _, _)
\* Mutant: an ordering violation is rejected with no corrective write.
SetToNoCorrection(s, to, fireCallback, ans) ==
    IF to < s.minValue \/ to > s.maxValue THEN [s EXCEPT !.ret = "false"]
    ELSE IF to <= s.fromValue THEN [s EXCEPT !.ret = "false"]
    ELSE IF to = s.toValue THEN [s EXCEPT !.ret = "false"]
    ELSE IF s.beforeToChange /\ ~ans
    THEN [s EXCEPT !.ret = "false",
                   !.guardLog = Append(@, GuardEval("to", s.fromValue, to, ans))]
    ELSE LET logged == IF s.beforeToChange
                       THEN [s EXCEPT !.guardLog =
                                Append(@, GuardEval("to", s.fromValue, to, ans))]
                       ELSE s
             written == [logged EXCEPT
                            !.toValue = to,
                            !.toThumb.valuenow = NumToString(to),
                            !.toThumb.valuetext = Formatter(to),
                            !.ret = "this"]
         IN  IF fireCallback THEN ScheduleCallback(written) ELSE written

\* Mutant: a vetoed call still resets the notification timer.
SetToVetoSchedules(s, to, fireCallback, ans) ==
    IF to < s.minValue \/ to > s.maxValue THEN [s EXCEPT !.ret = "false"]
    ELSE IF to <= s.fromValue
    THEN IF s.nested >= MaxCallDepth THEN [s EXCEPT !.ret = "StackOverflow"]
         ELSE LET inner == SetTo([s EXCEPT !.nested = @ + 1],
                                 s.fromValue + s.step, TRUE, ans)
              IN  IF inner.ret = "StackOverflow" THEN inner
                  ELSE [inner EXCEPT !.ret = "false"]
    ELSE IF to = s.toValue THEN [s EXCEPT !.ret = "false"]
    ELSE IF s.beforeToChange /\ ~ans
    THEN LET vetoed == [s EXCEPT !.ret = "false",
                           !.guardLog = Append(@, GuardEval("to", s.fromValue, to, ans))]
         IN  IF fireCallback THEN ScheduleCallback(vetoed) ELSE vetoed
    ELSE LET logged == IF s.beforeToChange
                       THEN [s EXCEPT !.guardLog =
                                Append(@, GuardEval("to", s.fromValue, to, ans))]
                       ELSE s
             written == [logged EXCEPT
                            !.toValue = to,
                            !.toThumb.valuenow = NumToString(to),
                            !.toThumb.valuetext = Formatter(to),
                            !.ret = "this"]
         IN  IF fireCallback THEN ScheduleCallback(written) ELSE written

\* setTo(to, fireCallback); ans is what the beforeToChange guard answers if this
\* call evaluates it.
SetTo(s, to, fireCallback, ans) ==
    IF to < s.minValue \/ to > s.maxValue THEN [s EXCEPT !.ret = "false"]
    ELSE IF to <= s.fromValue
    THEN IF s.nested >= MaxCallDepth THEN [s EXCEPT !.ret = "StackOverflow"]
         ELSE LET inner == SetTo([s EXCEPT !.nested = @ + 1],
                                 s.fromValue + s.step, TRUE, ans)
              IN  IF inner.ret = "StackOverflow" THEN inner
                  ELSE [inner EXCEPT !.ret = "false"]
    ELSE IF to = s.toValue THEN [s EXCEPT !.ret = "false"]
    ELSE IF s.beforeToChange /\ ~ans
    THEN [s EXCEPT !.ret = "false",
                   !.guardLog = Append(@, GuardEval("to", s.fromValue, to, ans))]
    ELSE LET logged == IF s.beforeToChange
                       THEN [s EXCEPT !.guardLog =
                                Append(@, GuardEval("to", s.fromValue, to, ans))]
                       ELSE s
             written == [logged EXCEPT
                            !.toValue = to,
                            !.toThumb.valuenow = NumToString(to),
                            !.toThumb.valuetext = Formatter(to),
                            !.ret = "this"]
         IN  IF fireCallback THEN ScheduleCallback(written) ELSE written

\* Mutant: the new minimum is not compared with the current from value.
SetMinFromUnchecked(s, min, fireCallback) ==
    IF min >= s.maxValue THEN [s EXCEPT !.ret = "RangeError"]
    ELSE LET written == [s EXCEPT
                            !.minValue = min,
                            !.fromThumb.valuemin = NumToString(min),
                            !.toThumb.valuemin = NumToString(min),
                            !.ret = "this"]
         IN  IF fireCallback THEN ScheduleCallback(written) ELSE written

\* setMin(min, fireCallback)
SetMin(s, min, fireCallback) ==
    IF min >= s.maxValue THEN [s EXCEPT !.ret = "RangeError"]
    ELSE IF min > s.fromValue THEN [s EXCEPT !.ret = "RangeError"]
    ELSE LET written == [s EXCEPT
                            !.minValue = min,
                            !.fromThumb.valuemin = NumToString(min),
                            !.toThumb.valuemin = NumToString(min),
                            !.ret = "this"]
         IN  IF fireCallback THEN ScheduleCallback(written) ELSE written

\* Mutant: a rejected maximum is written before the error is raised.
SetMaxWritesFirst(s, max, fireCallback) ==
    IF max <= s.minValue THEN [s EXCEPT !.ret = "RangeError"]
    ELSE IF max < s.toValue THEN [s EXCEPT !.maxValue = max, !.ret = "RangeError"]
    ELSE LET written == [s EXCEPT
                            !.maxValue = max,
                            !.fromThumb.valuemax = NumToString(max),
                            !.toThumb.valuemax = NumToString(max),
                            !.ret = "this"]
         IN  IF fireCallback THEN ScheduleCallback(written) ELSE written

\* setMax(max, fireCallback)
SetMax(s, max, fireCallback) ==
    IF max <= s.minValue THEN [s EXCEPT !.ret = "RangeError"]
    ELSE IF max < s.toValue THEN [s EXCEPT !.ret = "RangeError"]
    ELSE LET written == [s EXCEPT
                            !.maxValue = max,
                            !.fromThumb.valuemax = NumToString(max),
                            !.toThumb.valuemax = NumToString(max),
                            !.ret = "this"]
         IN  IF fireCallback THEN ScheduleCallback(written) ELSE written

UpdateKeys == {"min", "max", "from", "to"}

\* next[key] = o[key] !== undefined ? o[key] : current[key]
Merged(s, o) ==
    LET current == [min |-> s.minValue, max |-> s.maxValue,
                    from |-> s.fromValue, to |-> s.toValue]
    IN  [key \in UpdateKeys |->
            IF key \in DOMAIN o THEN o[key] ELSE current[key]]

\* Mutant: min and max are applied before from and to are validated.
UpdateBoundsFirst(s, o, fireCallback) ==
    LET next == Merged(s, o) IN
    IF next.min >= next.max THEN [s EXCEPT !.ret = "RangeError"]
    ELSE LET bounded == [s EXCEPT !.minValue = next.min, !.maxValue = next.max] IN
    IF next.from < next.min \/ next.from > next.max
    THEN [bounded EXCEPT !.ret = "RangeError"]
    ELSE IF next.to < next.min \/ next.to > next.max
    THEN [bounded EXCEPT !.ret = "RangeError"]
    ELSE IF next.from >= next.to THEN [bounded EXCEPT !.ret = "RangeError"]
    ELSE LET written == [s EXCEPT
                            !.minValue = next.min,
                            !.maxValue = next.max,
                            !.fromValue = next.from,
                            !.toValue = next.to,
                            !.fromThumb = [valuemin |-> NumToString(next.min),
                                           valuemax |-> NumToString(next.max),
                                           valuenow |-> NumToString(next.from),
                                           valuetext |-> Formatter(next.from)],
                            !.toThumb = [valuemin |-> NumToString(next.min),
                                         valuemax |-> NumToString(next.max),
                                         valuenow |-> NumToString(next.to),
                                         valuetext |-> Formatter(next.to)],
                            !.ret = "this"]
         IN  IF fireCallback THEN ScheduleCallback(written) ELSE written

\* update(o, fireCallback), o a plain object holding some of min, max, from, to
Update(s, o, fireCallback) ==
    LET next == Merged(s, o) IN
    IF next.min >= next.max THEN [s EXCEPT !.ret = "RangeError"]
    ELSE IF next.from < next.min \/ next.from > next.max
    THEN [s EXCEPT !.ret = "RangeError"]
    ELSE IF next.to < next.min \/ next.to > next.max
    THEN [s EXCEPT !.ret = "RangeError"]
    ELSE IF next.from >= next.to THEN [s EXCEPT !.ret = "RangeError"]
    ELSE LET written == [s EXCEPT
                            !.minValue = next.min,
                            !.maxValue = next.max,
                            !.fromValue = next.from,
                            !.toValue = next.to,
                            !.fromThumb = [valuemin |-> NumToString(next.min),
                                           valuemax |-> NumToString(next.max),
                                           valuenow |-> NumToString(next.from),
                                           valuetext |-> Formatter(next.from)],
                            !.toThumb = [valuemin |-> NumToString(next.min),
                                         valuemax |-> NumToString(next.max),
                                         valuenow |-> NumToString(next.to),
                                         valuetext |-> Formatter(next.to)],
                            !.ret = "this"]
         IN  IF fireCallback THEN ScheduleCallback(written) ELSE written

\* What the host's callback does when it is invoked: nothing to the widget, or
\* one call of setFrom or setTo.
CallbackBehaviours ==
    {[kind |-> "none", v |-> 0, fire |-> TRUE]}
        \cup [kind : {"setFrom", "setTo"}, v : Vals, fire : BOOLEAN]

\* this.#callback(from, to), for a callback of behaviour cb
HostCallback(s, cb, ans) ==
    IF cb.kind = "setFrom" THEN SetFrom(s, cb.v, cb.fire, ans)
    ELSE IF cb.kind = "setTo" THEN SetTo(s, cb.v, cb.fire, ans)
    ELSE s

\* The timeout's closure: the callback is invoked with the current values, then
\* the range-change event is dispatched with the values current after the
\* callback returned as its detail.  delivered is <<callback arguments, event
\* detail>>.
TimeoutClosure(s, cb, ans) ==
    LET after == HostCallback(s, cb, ans)
    IN  [state |-> [after EXCEPT !.ret = "none"],
         delivered |-> <<[from |-> s.fromValue, to |-> s.toValue],
                         [from |-> after.fromValue, to |-> after.toValue]>>]

\* ---------------------------------------------------------------- interaction

\* Math.round(p / q) for q > 0: the nearest integer, halves rounded up.
MathRound(p, q) == (2 * p + q) \div (2 * q)

Clamp01(num, width) == IF num < 0 THEN 0 ELSE IF num > width THEN width ELSE num

\* The snapped candidate of a pointer at clientX:
\*   percent = (clientX - left) / width, clamped to [0, 1] when clamp is set,
\*   value   = min + percent * (max - min),
\*   snapped = Math.round((value - min) / step) * step + min.
Snapped(s, clientX, clamp) ==
    LET num == IF clamp THEN Clamp01(clientX - s.trackRect.left, s.trackRect.width)
               ELSE clientX - s.trackRect.left
    IN  MathRound(num * (s.maxValue - s.minValue), s.trackRect.width * s.step)
            * s.step + s.minValue

\* #getValue(type)
GetValue(s, type) == IF type = "from" THEN s.fromValue ELSE s.toValue

\* #setValue(type, value): the setter is called with fireCallback defaulted to true
SetValue(s, type, value, ans) ==
    IF type = "from" THEN SetFrom(s, value, TRUE, ans) ELSE SetTo(s, value, TRUE, ans)

Abs(n) == IF n < 0 THEN 0 - n ELSE n

\* Mutant: on equal distances the from handle is chosen.
TrackClickedTieFrom(s, clientX, ans) ==
    LET snapped == Snapped(s, clientX, FALSE)
    IN  IF Abs(snapped - s.fromValue) <= Abs(snapped - s.toValue)
        THEN SetFrom(s, snapped, TRUE, ans)
        ELSE SetTo(s, snapped, TRUE, ans)

\* Mutant: the farther handle is chosen.
TrackClickedFarther(s, clientX, ans) ==
    LET snapped == Snapped(s, clientX, FALSE)
    IN  IF Abs(snapped - s.fromValue) > Abs(snapped - s.toValue)
        THEN SetFrom(s, snapped, TRUE, ans)
        ELSE SetTo(s, snapped, TRUE, ans)

\* #trackClicked(e)
TrackClicked(s, clientX, ans) ==
    LET snapped == Snapped(s, clientX, FALSE)
    IN  IF Abs(snapped - s.fromValue) < Abs(snapped - s.toValue)
        THEN SetFrom(s, snapped, TRUE, ans)
        ELSE SetTo(s, snapped, TRUE, ans)

\* Mutant: a drag start leaves the pending timer armed.
OnDragStartKeepsTimer(s, type) ==
    [s EXCEPT !.isDragging = type, !.duringDrag = TRUE, !.docListeners = TRUE]

\* #onDragStart(e, type)
OnDragStart(s, type) ==
    LET cleared == IF s.callbackTimer # 0
                   THEN [s EXCEPT !.timers = ClearTimeout(@, s.callbackTimer)]
                   ELSE s
    IN  [cleared EXCEPT !.isDragging = type, !.duringDrag = TRUE,
                        !.docListeners = TRUE]

\* #onDragMove(e)
OnDragMove(s, clientX, ans) ==
    IF s.isDragging = "null" THEN s
    ELSE IF clientX = 0 THEN s
    ELSE SetValue(s, s.isDragging, Snapped(s, clientX, TRUE), ans)

\* Mutant: the end of a drag schedules no notification.
OnDragEndNoSchedule(s) ==
    IF s.isDragging = "null" THEN s
    ELSE [s EXCEPT !.docListeners = FALSE, !.isDragging = "null",
                   !.duringDrag = FALSE]

\* Mutant: the end-of-drag handler does not look at #isDragging.
OnDragEndUnguarded(s) ==
    ScheduleCallback([s EXCEPT !.docListeners = FALSE, !.isDragging = "null",
                               !.duringDrag = FALSE])

\* Mutant: the end of a drag leaves the document-level listeners attached.
OnDragEndKeepsListeners(s) ==
    IF s.isDragging = "null" THEN s
    ELSE ScheduleCallback([s EXCEPT !.isDragging = "null", !.duringDrag = FALSE])

\* #onDragEnd()
OnDragEnd(s) ==
    IF s.isDragging = "null" THEN s
    ELSE ScheduleCallback([s EXCEPT !.docListeners = FALSE, !.isDragging = "null",
                                    !.duringDrag = FALSE])

Keys == {"ArrowLeft", "ArrowDown", "ArrowRight", "ArrowUp", "Enter"}

\* Mutant: a step that lands exactly on min or max is not taken.
OnKeyStrictBound(s, key, type, ans) ==
    IF key \in {"ArrowLeft", "ArrowDown"}
    THEN IF GetValue(s, type) - s.step > s.minValue
         THEN ScheduleCallback(SetValue(s, type, GetValue(s, type) - s.step, ans))
         ELSE s
    ELSE IF key \in {"ArrowRight", "ArrowUp"}
    THEN IF GetValue(s, type) + s.step < s.maxValue
         THEN ScheduleCallback(SetValue(s, type, GetValue(s, type) + s.step, ans))
         ELSE s
    ELSE s

\* #onKey(e, type)
OnKey(s, key, type, ans) ==
    IF key \in {"ArrowLeft", "ArrowDown"}
    THEN IF GetValue(s, type) - s.step >= s.minValue
         THEN ScheduleCallback(SetValue(s, type, GetValue(s, type) - s.step, ans))
         ELSE s
    ELSE IF key \in {"ArrowRight", "ArrowUp"}
    THEN IF GetValue(s, type) + s.step <= s.maxValue
         THEN ScheduleCallback(SetValue(s, type, GetValue(s, type) + s.step, ans))
         ELSE s
    ELSE s

\* ------------------------------------------------------------------ lifecycle

\* #setOuterRects: the rectangles are read again from the document, where the
\* track has the rectangle rect.
SetOuterRects(s, rect) == [s EXCEPT !.trackRect = rect]

\* Mutant: destroy() runs its teardown again on a destroyed instance.
DestroyAgain(s) ==
    LET unbound == [s EXCEPT !.thumbListeners = FALSE]
        ended == IF unbound.isDragging # "null" THEN OnDragEnd(unbound)
                 ELSE unbound
        unobserved == [ended EXCEPT !.modifyObserver = FALSE]
        cancelled == IF unobserved.callbackTimer # 0
                     THEN [unobserved EXCEPT
                              !.timers = ClearTimeout(@, unobserved.callbackTimer),
                              !.callbackTimer = 0]
                     ELSE unobserved
    IN  [cancelled EXCEPT !.map = FALSE, !.destroyed = TRUE]

\* destroy()
Destroy(s) ==
    IF s.destroyed THEN s
    ELSE LET unbound == [s EXCEPT !.thumbListeners = FALSE]
             ended == IF unbound.isDragging # "null" THEN OnDragEnd(unbound)
                      ELSE unbound
             unobserved == [ended EXCEPT !.modifyObserver = FALSE]
             cancelled == IF unobserved.callbackTimer # 0
                          THEN [unobserved EXCEPT
                                   !.timers = ClearTimeout(@, unobserved.callbackTimer),
                                   !.callbackTimer = 0]
                          ELSE unobserved
         IN  [cancelled EXCEPT !.map = FALSE, !.destroyed = TRUE]

\* The ResizeObserver callback the constructor registers; isConnected is
\* this.#div.isConnected, the host document's state when the callback runs,
\* and rect the track's rectangle in it.
ObserverCallback(s, isConnected, rect) ==
    IF s.isInitObservation THEN [s EXCEPT !.isInitObservation = FALSE]
    ELSE IF ~isConnected THEN Destroy(s)
    ELSE SetOuterRects(s, rect)

\* The configurations create() is tried on.
Configs ==
    [min : Vals, max : Vals, from : Vals, to : Vals, step : 1..MaxStep,
     beforeFromChange : BOOLEAN, beforeToChange : BOOLEAN]

\* DoubleRange.create(o) raises a RangeError
CreateThrows(o) ==
    \/ o.from < o.min \/ o.from > o.max
    \/ o.to < o.min \/ o.to > o.max
    \/ o.from >= o.to

\* The aria-* attributes of the two handles in the markup create() generates.
Markup(o) ==
    [fromThumb |-> [valuemin |-> NumToString(o.min), valuemax |-> NumToString(o.max),
                    valuenow |-> NumToString(o.from), valuetext |-> Formatter(o.from)],
     toThumb |-> [valuemin |-> NumToString(o.min), valuemax |-> NumToString(o.max),
                  valuenow |-> NumToString(o.to), valuetext |-> Formatter(o.to)]]

\* attr || fallback, for an attribute text (absent or empty is <<>>)
OrText(attr, fallback) == IF attr = <<>> THEN fallback ELSE attr

\* a || b || c on numbers: the first truthy one, else the last
FirstTruthy(a, b, c) == IF Truthy(a) THEN a ELSE IF Truthy(b) THEN b ELSE c

\* The values the constructor reads from the markup m and the configuration o.
InitialValues(o, m) ==
    LET min == ParseFloat(OrText(m.fromThumb.valuemin, <<"0">>))
        max == ParseFloat(OrText(m.fromThumb.valuemax, <<"1", "0", "0">>))
    IN  [min |-> min, max |-> max,
         from |-> FirstTruthy(ParseFloat(OrText(m.fromThumb.valuenow, <<"0">>)),
                              Num(o.from), min),
         to |-> FirstTruthy(ParseFloat(OrText(m.toThumb.valuenow, <<"1", "0", "0">>)),
                            Num(o.to), max)]

\* new DoubleRange(o) raises 'Initial values: from must be less than to'
ConstructorThrows(o, m) ==
    LET iv == InitialValues(o, m)
    IN  ~iv.from.nan /\ ~iv.to.nan /\ iv.from.val >= iv.to.val

\* The instance new DoubleRange(o) leaves on the markup m.
Constructor(o, m) ==
    LET iv == InitialValues(o, m)
    IN  [minValue |-> iv.min.val, maxValue |-> iv.max.val, step |-> o.step,
         fromValue |-> iv.from.val, toValue |-> iv.to.val,
         isDragging |-> "null", duringDrag |-> FALSE,
         callbackTimer |-> 0, destroyed |-> FALSE,
         beforeFromChange |-> o.beforeFromChange,
         beforeToChange |-> o.beforeToChange,
         trackRect |-> DomTrackRect, fromThumb |-> m.fromThumb, toThumb |-> m.toThumb,
         timers |-> {}, map |-> TRUE,
         modifyObserver |-> TRUE, isInitObservation |-> TRUE,
         thumbListeners |-> TRUE, docListeners |-> FALSE,
         ret |-> "this", guardLog |-> <<>>, nested |-> 0]

\* DoubleRange.create(o), for a configuration it accepts
Create(o) == Constructor(o, Markup(o))

\* ------------------------------------------------------------ label layout

\* Lengths are whole numbers of a quarter of the layout's unit: a nominal
\* position is 2 * n, a label's width 4 * k and the container's width 2 * w,
\* so that half a label and half an overlap are whole.
MaxDivWidth == 6
MaxLabelWidth == 2
DivWidths == {2 * w : w \in 1..MaxDivWidth}
LabelWidths == {4 * k : k \in 1..MaxLabelWidth}

\* getBoundingClientRect() of a label whose style.left is
\* calc(<nominal position> + <shift>px): the style sheet centres the label's
\* box on its left position, and the box keeps its width.
LabelRect(label, shift) ==
    [left |-> label.nominal - label.width \div 2 + shift, width |-> label.width]

\* The boxes the document renders for the shifts recorded in g.
FromRect(g) == LabelRect(g.from, g.fromShift)
ToRect(g) == LabelRect(g.to, g.toShift)

\* One correction pass of the layout, for the record: the boxes the pass took
\* its decision on, and the boxes the document rendered when it took it.
Pass(name, fromRead, toRead, g) ==
    [name |-> name, fromRead |-> fromRead, toRead |-> toRead,
     fromRendered |-> FromRect(g), toRendered |-> ToRect(g)]

\* Mutant: the layout without its right-overflow correction.
UpdateFromToLabelsNoRightPass(g) ==
    LET reset == [g EXCEPT !.hasLabelsCollision = FALSE, !.fromShift = 0,
                           !.toShift = 0, !.passes = <<>>]
        fromRect0 == FromRect(reset)
        toRect0 == ToRect(reset)
        collisionWidth == fromRect0.left + fromRect0.width - toRect0.left
        centred == IF collisionWidth > 0
                   THEN [reset EXCEPT !.hasLabelsCollision = TRUE,
                                      !.fromShift = @ - collisionWidth \div 2,
                                      !.toShift = @ + collisionWidth \div 2]
                   ELSE reset
        fromRect == IF collisionWidth > 0 THEN FromRect(centred) ELSE fromRect0
        toRect == IF collisionWidth > 0 THEN ToRect(centred) ELSE toRect0
        realLeft == fromRect.left - g.divRect.left
        toLeft == toRect.left - g.divRect.left
        lefted == IF realLeft < 0
                  THEN LET moved == [centred EXCEPT !.fromShift = @ - realLeft]
                       IN  IF toLeft < fromRect.width
                           THEN [moved EXCEPT !.hasLabelsCollision = TRUE,
                                              !.toShift = @ + (fromRect.width - toLeft)]
                           ELSE moved
                  ELSE centred
    IN  IF ~g.visible THEN reset ELSE lefted

\* #updateFromToLabels(): fromShift and toShift are the pixel terms of the two
\* labels' style.left, passes the record of the correction passes.
UpdateFromToLabels(g) ==
    LET reset == [g EXCEPT !.hasLabelsCollision = FALSE, !.fromShift = 0,
                           !.toShift = 0, !.passes = <<>>]
        \* the bounding rects, measured
        fromRect0 == FromRect(reset)
        toRect0 == ToRect(reset)
        \* case: labels collide
        collisionWidth == fromRect0.left + fromRect0.width - toRect0.left
        centred == IF collisionWidth > 0
                   THEN [reset EXCEPT !.hasLabelsCollision = TRUE,
                                      !.fromShift = @ - collisionWidth \div 2,
                                      !.toShift = @ + collisionWidth \div 2]
                   ELSE reset
        \* measured again only when the labels collided
        fromRect == IF collisionWidth > 0 THEN FromRect(centred) ELSE fromRect0
        toRect == IF collisionWidth > 0 THEN ToRect(centred) ELSE toRect0
        pass1 == Pass("centre", fromRect0, toRect0, reset)
        \* case: toLabel overflows right
        pass2 == Pass("right", fromRect, toRect, centred)
        rightOverflow ==
            toRect.left - g.divRect.left + toRect.width - g.divRect.width
        fromCollision ==
            (fromRect.left - g.divRect.left + fromRect.width)
                - (g.divRect.width - toRect.width)
        righted == IF rightOverflow > 0
                   THEN LET moved == [centred EXCEPT !.toShift = @ - rightOverflow]
                        IN  IF fromCollision > 0
                            THEN [moved EXCEPT !.hasLabelsCollision = TRUE,
                                               !.fromShift = @ - fromCollision]
                            ELSE moved
                   ELSE centred
        \* case: fromLabel overflows left; fromRect and toRect are the rects
        \* measured before the right-overflow case
        pass3 == Pass("left", fromRect, toRect, righted)
        realLeft == fromRect.left - g.divRect.left
        toLeft == toRect.left - g.divRect.left
        lefted == IF realLeft < 0
                  THEN LET moved == [righted EXCEPT !.fromShift = @ - realLeft]
                       IN  IF toLeft < fromRect.width
                           THEN [moved EXCEPT !.hasLabelsCollision = TRUE,
                                              !.toShift = @ + (fromRect.width - toLeft)]
                           ELSE moved
                  ELSE righted
    IN  IF ~g.visible THEN reset
        ELSE [lefted EXCEPT !.passes = <<pass1, pass2, pass3>>]

\* The labels of a widget whose layout has not met a collision: the container
\* is as wide as the largest one, the handles stand at its two ends.
InitialLabels ==
    [divRect |-> [left |-> 0, width |-> 2 * MaxDivWidth],
     from |-> [nominal |-> 0, width |-> 4],
     to |-> [nominal |-> 2 * MaxDivWidth, width |-> 4],
     visible |-> FALSE, hasLabelsCollision |-> FALSE,
     fromShift |-> 0, toShift |-> 0, passes |-> <<>>]

\* ------------------------------------------------------------- the registry

\* The page has MaxContainers container elements, on which at most
\* MaxInstances instances are constructed and for which create() generates at
\* most MaxDivs '.double-range' elements.
MaxContainers == 2
MaxInstances == 3
MaxDivs == 3
Containers == 1..MaxContainers

\* The elements that are tried as keys of DoubleRange.#map: a container, or a
\* '.double-range' element inside one.
ContainerEl(c) == [kind |-> "container", id |-> c]
DivEl(d) == [kind |-> "div", id |-> d]

\* DoubleRange.#map.has(el): #map is the set of <<key element, instance>> pairs
MapHas(p, el) == \E e \in p.map : e[1] = el

\* DoubleRange.#map.get(el) || null, with 0 for null
MapGet(p, el) == IF MapHas(p, el) THEN (CHOOSE e \in p.map : e[1] = el)[2] ELSE 0

\* DoubleRange.#map.set(el, i)
MapSet(p, el, i) == [p EXCEPT !.map = {e \in @ : e[1] # el} \cup {<<el, i>>}]

\* DoubleRange.#map.delete(el)
MapDelete(p, el) == [p EXCEPT !.map = {e \in @ : e[1] # el}]

\* The page the widget of the other variables stands on: create() has generated
\* '.double-range' element 1 in container 1 and constructed instance 1 on it;
\* the other containers hold no markup. div[c] is the '.double-range' element
\* container.querySelector finds in c (0 for none), counter the number of
\* elements generated so far.
InitialPage ==
    [div |-> [c \in Containers |-> IF c = 1 THEN 1 ELSE 0],
     instances |-> <<[container |-> 1, div |-> 1, destroyed |-> FALSE,
                      isInitObservation |-> TRUE]>>,
     map |-> {<<DivEl(1), 1>>},
     counter |-> 1,
     threw |-> FALSE]

\* The constructor's use of the registry: new DoubleRange(o)
\* for a selector that matches container c, with the markup's values valid.
PageConstructor(p, c) ==
    IF MapHas(p, ContainerEl(c)) THEN [p EXCEPT !.threw = TRUE]
    ELSE IF p.div[c] = 0 THEN [p EXCEPT !.threw = TRUE]
    ELSE LET i == Len(p.instances) + 1
             bound == [p EXCEPT !.instances =
                          Append(@, [container |-> c, div |-> p.div[c],
                                     destroyed |-> FALSE,
                                     isInitObservation |-> TRUE])]
         IN  [MapSet(bound, DivEl(p.div[c]), i) EXCEPT !.threw = FALSE]

\* DoubleRange.create(o) for a selector that matches container c and a
\* configuration create() accepts: the container is emptied, a new
\* '.double-range' element is generated in it and the constructor runs.
PageCreate(p, c) ==
    PageConstructor([p EXCEPT !.counter = @ + 1, !.div[c] = p.counter + 1], c)

\* destroy() of instance i, as far as the registry goes
PageDestroy(p, i) ==
    IF p.instances[i].destroyed THEN [p EXCEPT !.threw = FALSE]
    ELSE LET el == DivEl(p.instances[i].div)
             removed == IF MapHas(p, el) THEN MapDelete(p, el) ELSE p
         IN  [removed EXCEPT !.instances[i].destroyed = TRUE, !.threw = FALSE]

\* this.#div.isConnected of instance i: its element is still the one in its
\* container.
IsConnected(p, i) == p.div[p.instances[i].container] = p.instances[i].div

\* The ResizeObserver callback of instance i
PageObserverCallback(p, i) ==
    IF p.instances[i].isInitObservation
    THEN [p EXCEPT !.instances[i].isInitObservation = FALSE, !.threw = FALSE]
    ELSE IF ~IsConnected(p, i) THEN PageDestroy(p, i)
    ELSE [p EXCEPT !.threw = FALSE]

\* DoubleRange.getByContainer(c), and getBySelector for a selector matching c
GetByContainer(p, c) ==
    IF p.div[c] = 0 THEN 0 ELSE MapGet(p, DivEl(p.div[c]))

\* ---------------------------------------------------------------- the machine

\* The variables hold the widget DoubleRange.create(o) returns.
Created(o) ==
        /\ ~CreateThrows(o)
        /\ ~ConstructorThrows(o, Markup(o))
        /\ LET s == Create(o) IN
            /\ minValue = s.minValue
            /\ maxValue = s.maxValue
            /\ step = s.step
            /\ fromValue = s.fromValue
            /\ toValue = s.toValue
            /\ isDragging = s.isDragging
            /\ duringDrag = s.duringDrag
            /\ callbackTimer = s.callbackTimer
            /\ destroyed = s.destroyed
            /\ beforeFromChange = s.beforeFromChange
            /\ beforeToChange = s.beforeToChange
            /\ trackRect = s.trackRect
            /\ fromThumb = s.fromThumb
            /\ toThumb = s.toThumb
            /\ timers = s.timers
            /\ map = s.map
            /\ modifyObserver = s.modifyObserver
            /\ isInitObservation = s.isInitObservation
            /\ thumbListeners = s.thumbListeners
            /\ docListeners = s.docListeners
            /\ last = [NoCall EXCEPT !.op = "create", !.o = o, !.ret = "this",
                                     !.pre = s]

InitWidget == \E o \in Configs : Created(o)

\* The widget DoubleRange.create(o) leaves, alone on its page.
Init ==
    /\ InitWidget
    /\ page = InitialPage
    /\ labels = InitialLabels

\* The answers a guard may give: any, when one is registered for the side.
Answers(registered) == IF registered THEN BOOLEAN ELSE {TRUE}

CallSetFrom ==
    /\ Ready
    /\ \E v \in Vals, fire \in BOOLEAN, ans \in Answers(beforeFromChange) :
        Install(SetFrom(Cur, v, fire, ans),
                [NoCall EXCEPT !.op = "setFrom", !.v = v, !.fire = fire],
                Cur)

CallSetTo ==
    /\ Ready
    /\ \E v \in Vals, fire \in BOOLEAN, ans \in Answers(beforeToChange) :
        Install(SetTo(Cur, v, fire, ans),
                [NoCall EXCEPT !.op = "setTo", !.v = v, !.fire = fire],
                Cur)

CallSetMin ==
    /\ Ready
    /\ \E v \in Vals, fire \in BOOLEAN :
        Install(SetMin(Cur, v, fire),
                [NoCall EXCEPT !.op = "setMin", !.v = v, !.fire = fire], Cur)

CallSetMax ==
    /\ Ready
    /\ \E v \in Vals, fire \in BOOLEAN :
        Install(SetMax(Cur, v, fire),
                [NoCall EXCEPT !.op = "setMax", !.v = v, !.fire = fire], Cur)

\* The objects update() is called with: those holding at most one key.
UpdateInputs == UNION {[D -> Vals] : D \in {K \in SUBSET UpdateKeys : Cardinality(K) <= 1}}

CallUpdate ==
    /\ Ready
    /\ \E o \in UpdateInputs, fire \in BOOLEAN :
        Install(Update(Cur, o, fire),
                [NoCall EXCEPT !.op = "update", !.o = o, !.fire = fire], Cur)

CallDestroy ==
    /\ Ready
    /\ Install(Destroy(Cur), [NoCall EXCEPT !.op = "destroy"], Cur)

\* mousedown / touchstart on a handle
DragStart ==
    /\ Ready
    /\ thumbListeners
    /\ \E type \in {"from", "to"} :
        Install(OnDragStart(Cur, type),
                [NoCall EXCEPT !.op = "dragStart", !.type = type], Cur)

\* mousemove / touchmove on the document
DragMove ==
    /\ Ready
    /\ docListeners
    /\ \E x \in PointerXs, ans \in BOOLEAN :
        /\ ans \in Answers(IF isDragging = "to" THEN beforeToChange
                           ELSE beforeFromChange)
        /\ Install(OnDragMove(Cur, x, ans),
                   [NoCall EXCEPT !.op = "dragMove", !.type = isDragging, !.x = x],
                   Cur)

\* mouseup / touchend on the document
DragEnd ==
    /\ Ready
    /\ docListeners
    /\ Install(OnDragEnd(Cur), [NoCall EXCEPT !.op = "dragEnd"], Cur)

\* keydown on a handle
KeyDown ==
    /\ Ready
    /\ thumbListeners
    /\ \E type \in {"from", "to"}, key \in Keys, ans \in BOOLEAN :
        /\ ans \in Answers(IF type = "to" THEN beforeToChange ELSE beforeFromChange)
        /\ Install(OnKey(Cur, key, type, ans),
                   [NoCall EXCEPT !.op = "key", !.type = type, !.key = key], Cur)

\* click on the track; the one guard the click evaluates answers ans
TrackClick ==
    /\ Ready
    /\ thumbListeners
    /\ \E x \in PointerXs, ans \in BOOLEAN :
        /\ ans \in Answers(beforeFromChange \/ beforeToChange)
        /\ Install(TrackClicked(Cur, x, ans),
                   [NoCall EXCEPT !.op = "click", !.x = x], Cur)

\* The timeout id expires: the callback runs, then the event is dispatched.
\* The guard the callback's setter evaluates, if any, answers ans.
TimerFire ==
    /\ Ready
    /\ \E id \in timers, cb \in CallbackBehaviours, ans \in BOOLEAN :
        /\ ans \in Answers(\/ cb.kind = "setFrom" /\ beforeFromChange
                           \/ cb.kind = "setTo" /\ beforeToChange)
        /\ LET run == TimeoutClosure([Cur EXCEPT !.timers = @ \ {id}], cb, ans)
           IN  Install(run.state,
                       [NoCall EXCEPT !.op = "timer", !.type = cb.kind, !.v = cb.v,
                                      !.fire = cb.fire, !.delivered = run.delivered],
                       Cur)

\* The ResizeObserver notifies the widget, its element being in the document
\* (a resize) or removed from it.
ObserverNotify ==
    /\ Ready
    /\ modifyObserver
    /\ \E isConnected \in BOOLEAN :
        Install(ObserverCallback(Cur, isConnected, DomTrackRect),
                [NoCall EXCEPT !.op = "observer", !.isConnected = isConnected,
                               !.rect = DomTrackRect],
                Cur)

\* The record of the last operation is dropped; no field of the program changes.
Observed ==
    /\ ~Ready
    /\ last' = [NoCall EXCEPT !.pre = Cur]
    /\ UNCHANGED <<minValue, maxValue, step, fromValue, toValue, isDragging,
                   duringDrag, callbackTimer, destroyed, beforeFromChange,
                   beforeToChange, trackRect, fromThumb, toThumb, timers, map,
                   modifyObserver, isInitObservation, thumbListeners,
                   docListeners, page, labels>>

Next ==
    \/ Observed
    \/ CallSetFrom
    \/ CallSetTo
    \/ CallSetMin
    \/ CallSetMax
    \/ CallUpdate
    \/ CallDestroy
    \/ DragStart
    \/ DragMove
    \/ DragEnd
    \/ KeyDown
    \/ TrackClick
    \/ TimerFire
    \/ ObserverNotify

Spec == Init /\ [][Next]_vars

\* A widget the host application drives through update() only, called with any
\* object over min, max, from, to; drags start and end and the timer expires.
UpdateInputsAll == UNION {[D -> Vals] : D \in SUBSET UpdateKeys}

CallUpdateAny ==
    /\ Ready
    /\ \E o \in UpdateInputsAll, fire \in BOOLEAN :
        Install(Update(Cur, o, fire),
                [NoCall EXCEPT !.op = "update", !.o = o, !.fire = fire], Cur)

NextUpdate ==
    \/ Observed
    \/ CallUpdateAny
    \/ DragStart
    \/ DragEnd
    \/ TimerFire

\* update() reads no guard: the widgets of this specification register none.
InitUpdate ==
    /\ Init
    /\ ~beforeFromChange
    /\ ~beforeToChange

SpecUpdate == InitUpdate /\ [][NextUpdate]_vars

\* ---------------------------------------------------------------- any step

\* The steps create() accepts: any number; zero and negative ones as well.
AnySteps == (0 - MaxStep)..MaxStep

\* A widget created with any step create() accepts, without guards.
InitStep ==
    /\ \E o \in [min : Vals, max : Vals, from : Vals, to : Vals, step : AnySteps,
                  beforeFromChange : {FALSE}, beforeToChange : {FALSE}] :
        Created(o)
    /\ page = InitialPage
    /\ labels = InitialLabels

NextStep ==
    \/ Observed
    \/ CallSetFrom
    \/ CallSetTo
    \/ CallSetMin
    \/ CallSetMax

SpecStep == InitStep /\ [][NextStep]_vars

\* ------------------------------------------------- guards that call back in

\* What a guard predicate does to the widget while it is evaluated: nothing, or
\* one call of a public mutator (with the default fireCallback).
GuardBehaviours ==
    {[kind |-> "none", v |-> 0, o |-> <<>>]}
        \cup [kind : {"setFrom", "setTo", "setMin", "setMax"}, v : Vals, o : {<<>>}]
        \cup [kind : {"update"}, v : {0}, o : UpdateInputs]

\* The call a guard of behaviour gb makes; inner is what a guard answers that
\* this call evaluates in its turn.
GuardCall(s, gb, inner) ==
    IF gb.kind = "setFrom" THEN SetFrom(s, gb.v, TRUE, inner)
    ELSE IF gb.kind = "setTo" THEN SetTo(s, gb.v, TRUE, inner)
    ELSE IF gb.kind = "setMin" THEN SetMin(s, gb.v, TRUE)
    ELSE IF gb.kind = "setMax" THEN SetMax(s, gb.v, TRUE)
    ELSE IF gb.kind = "update" THEN Update(s, gb.o, TRUE)
    ELSE s

\* setFrom(from, fireCallback) with a beforeFromChange guard of behaviour gb
\* that answers ans: the guard is called with (from, #toValue) after the range
\* and ordering tests, and the value is written after it has returned.  An
\* error the guard's call raises leaves setFrom with it.
ReentrantSetFrom(s, from, fireCallback, gb, ans, inner) ==
    IF from < s.minValue \/ from > s.maxValue THEN [s EXCEPT !.ret = "false"]
    ELSE IF from >= s.toValue
    THEN IF s.nested >= MaxCallDepth THEN [s EXCEPT !.ret = "StackOverflow"]
         ELSE LET corrected == SetFrom([s EXCEPT !.nested = @ + 1],
                                       s.toValue - s.step, TRUE, inner)
              IN  IF corrected.ret = "StackOverflow" THEN corrected
                  ELSE [corrected EXCEPT !.ret = "false"]
    ELSE IF from = s.toValue THEN [s EXCEPT !.ret = "false"]
    ELSE IF ~s.beforeFromChange THEN SetFrom(s, from, fireCallback, TRUE)
    ELSE LET called == GuardCall(s, gb, inner)
             logged == [called EXCEPT !.guardLog =
                           Append(s.guardLog, GuardEval("from", from, s.toValue, ans))]
         IN  IF called.ret = "RangeError" THEN called
             ELSE IF ~ans THEN [logged EXCEPT !.ret = "false"]
             ELSE LET written == [logged EXCEPT
                                     !.fromValue = from,
                                     !.fromThumb.valuenow = NumToString(from),
                                     !.fromThumb.valuetext = Formatter(from),
                                     !.ret = "this"]
                  IN  IF fireCallback THEN ScheduleCallback(written) ELSE written

\* setTo(to, fireCallback) with a beforeToChange guard of behaviour gb that
\* answers ans
ReentrantSetTo(s, to, fireCallback, gb, ans, inner) ==
    IF to < s.minValue \/ to > s.maxValue THEN [s EXCEPT !.ret = "false"]
    ELSE IF to <= s.fromValue
    THEN IF s.nested >= MaxCallDepth THEN [s EXCEPT !.ret = "StackOverflow"]
         ELSE LET corrected == SetTo([s EXCEPT !.nested = @ + 1],
                                     s.fromValue + s.step, TRUE, inner)
              IN  IF corrected.ret = "StackOverflow" THEN corrected
                  ELSE [corrected EXCEPT !.ret = "false"]
    ELSE IF to = s.toValue THEN [s EXCEPT !.ret = "false"]
    ELSE IF ~s.beforeToChange THEN SetTo(s, to, fireCallback, TRUE)
    ELSE LET called == GuardCall(s, gb, inner)
             logged == [called EXCEPT !.guardLog =
                           Append(s.guardLog, GuardEval("to", s.fromValue, to, ans))]
         IN  IF called.ret = "RangeError" THEN called
             ELSE IF ~ans THEN [logged EXCEPT !.ret = "false"]
             ELSE LET written == [logged EXCEPT
                                     !.toValue = to,
                                     !.toThumb.valuenow = NumToString(to),
                                     !.toThumb.valuetext = Formatter(to),
                                     !.ret = "this"]
                  IN  IF fireCallback THEN ScheduleCallback(written) ELSE written

ReentrantCallSetFrom ==
    /\ Ready
    /\ \E v \in Vals, fire \in BOOLEAN, gb \in GuardBehaviours,
          ans \in BOOLEAN, inner \in BOOLEAN :
        Install(ReentrantSetFrom(Cur, v, fire, gb, ans, inner),
                [NoCall EXCEPT !.op = "setFrom", !.v = v, !.fire = fire,
                               !.type = gb.kind],
                Cur)

ReentrantCallSetTo ==
    /\ Ready
    /\ \E v \in Vals, fire \in BOOLEAN, gb \in GuardBehaviours,
          ans \in BOOLEAN, inner \in BOOLEAN :
        Install(ReentrantSetTo(Cur, v, fire, gb, ans, inner),
                [NoCall EXCEPT !.op = "setTo", !.v = v, !.fire = fire,
                               !.type = gb.kind],
                Cur)

NextReentrant ==
    \/ Observed
    \/ ReentrantCallSetFrom
    \/ ReentrantCallSetTo

\* A widget whose guards call its public mutators while they are evaluated.
SpecReentrant == Init /\ [][NextReentrant]_vars

\* ------------------------------------------------------------------ resizes

\* The rectangles the track has in the document: the one it had when the
\* widget was constructed, and the one a resize of the host gives it.
TrackRects == {DomTrackRect, [left |-> DomTrackRect.left, width |-> DomTrackRect.width + 2]}

\* The host element is resized and stays in the document: the ResizeObserver
\* notifies the widget, and the track has the rectangle rect.
ResizeNotify ==
    /\ Ready
    /\ modifyObserver
    /\ \E rect \in TrackRects :
        Install(ObserverCallback(Cur, TRUE, rect),
                [NoCall EXCEPT !.op = "resize", !.rect = rect], Cur)

NextResize ==
    \/ Observed
    \/ ResizeNotify
    \/ CallSetFrom
    \/ CallSetTo
    \/ DragStart
    \/ DragMove
    \/ DragEnd
    \/ TimerFire

\* A widget whose host is resized between the host application's calls and the
\* user's drags.
SpecResize == Init /\ [][NextResize]_vars

\* ----------------------------------------------------- label layout, run

\* The geometries the layout is run on: a container, the two handles' nominal
\* positions in it (from left of to), and the widths of the two label texts.
LabelGeometries ==
    {[divRect |-> [left |-> 0, width |-> w],
      from |-> [nominal |-> nf, width |-> wf],
      to |-> [nominal |-> nt, width |-> wt],
      visible |-> v, hasLabelsCollision |-> FALSE,
      fromShift |-> 0, toShift |-> 0, passes |-> <<>>] :
        w \in DivWidths, nf \in {2 * n : n \in 0..MaxDivWidth},
        nt \in {2 * n : n \in 0..MaxDivWidth}, wf \in LabelWidths,
        wt \in LabelWidths, v \in BOOLEAN}

\* #updateFromToLabels() runs.
LayoutRun ==
    /\ Ready
    /\ labels' = UpdateFromToLabels(labels)
    /\ last' = [NoCall EXCEPT !.op = "layout", !.pre = Cur]
    /\ UNCHANGED <<minValue, maxValue, step, fromValue, toValue, isDragging,
                   duringDrag, callbackTimer, destroyed, beforeFromChange,
                   beforeToChange, trackRect, fromThumb, toThumb, timers, map,
                   modifyObserver, isInitObservation, thumbListeners,
                   docListeners, page>>

NextLabels ==
    \/ Observed
    \/ LayoutRun

\* A widget without guards whose labels have one of the geometries.
InitLabels ==
    /\ InitWidget
    /\ ~beforeFromChange
    /\ ~beforeToChange
    /\ step = 1
    /\ page = InitialPage
    /\ \E g \in LabelGeometries :
        /\ g.from.nominal < g.to.nominal
        /\ g.to.nominal <= g.divRect.width
        /\ labels = g

SpecLabels == InitLabels /\ [][NextLabels]_vars

\* ------------------------------------------------------------- attach mode

\* The texts an aria-* attribute of the existing markup may hold: none (the
\* attribute is absent), or the literal of a value.
AttrTexts == {<<>>} \cup {NumToString(v) : v \in Vals}

\* The markups new DoubleRange(o) is tried on: both handles are present, and
\* each attribute the constructor reads is absent or holds a literal.
AttachMarkups ==
    {[fromThumb |-> [valuemin |-> a, valuemax |-> b, valuenow |-> f,
                     valuetext |-> <<>>],
      toThumb |-> [valuemin |-> a, valuemax |-> b, valuenow |-> g,
                   valuetext |-> <<>>]] :
        a \in AttrTexts, b \in AttrTexts, f \in AttrTexts, g \in AttrTexts}

\* The configurations new DoubleRange(o) is tried with: those create() accepts,
\* without guards.
AttachConfigs ==
    {o \in Configs : /\ ~CreateThrows(o)
                     /\ o.step = 1
                     /\ ~o.beforeFromChange
                     /\ ~o.beforeToChange}

\* The widget new DoubleRange(o) leaves on an existing markup m.
InitAttach ==
    \E o \in AttachConfigs, m \in AttachMarkups :
        /\ ~ConstructorThrows(o, m)
        /\ LET s == Constructor(o, m) IN
            /\ minValue = s.minValue
            /\ maxValue = s.maxValue
            /\ step = s.step
            /\ fromValue = s.fromValue
            /\ toValue = s.toValue
            /\ isDragging = s.isDragging
            /\ duringDrag = s.duringDrag
            /\ callbackTimer = s.callbackTimer
            /\ destroyed = s.destroyed
            /\ beforeFromChange = s.beforeFromChange
            /\ beforeToChange = s.beforeToChange
            /\ trackRect = s.trackRect
            /\ fromThumb = s.fromThumb
            /\ toThumb = s.toThumb
            /\ timers = s.timers
            /\ map = s.map
            /\ modifyObserver = s.modifyObserver
            /\ isInitObservation = s.isInitObservation
            /\ thumbListeners = s.thumbListeners
            /\ docListeners = s.docListeners
            /\ page = [InitialPage EXCEPT !.counter = 0]
            /\ labels = InitialLabels
            /\ last = [NoCall EXCEPT !.op = "attach", !.o = o, !.m = m,
                                     !.ret = "this", !.pre = s]

NextAttach ==
    \/ Observed
    \/ CallDestroy
    \/ ObserverNotify

SpecAttach == InitAttach /\ [][NextAttach]_vars

\* --------------------------------------------- several widgets on one page

\* An operation on the page: the instance fields of the other variables stay.
PageStep(p, c) ==
    /\ page' = [p EXCEPT !.threw = FALSE]
    /\ last' = [c EXCEPT !.threw = p.threw, !.pre = Cur, !.page = page]
    /\ UNCHANGED <<minValue, maxValue, step, fromValue, toValue, isDragging,
                   duringDrag, callbackTimer, destroyed, beforeFromChange,
                   beforeToChange, trackRect, fromThumb, toThumb, timers, map,
                   modifyObserver, isInitObservation, thumbListeners,
                   docListeners, labels>>

PageAttach ==
    /\ Ready
    /\ Len(page.instances) < MaxInstances
    /\ \E c \in Containers :
        PageStep(PageConstructor(page, c), [NoCall EXCEPT !.op = "attach", !.c = c])

PageBuild ==
    /\ Ready
    /\ Len(page.instances) < MaxInstances
    /\ page.counter < MaxDivs
    /\ \E c \in Containers :
        PageStep(PageCreate(page, c), [NoCall EXCEPT !.op = "build", !.c = c])

PageCallDestroy ==
    /\ Ready
    /\ \E i \in 1..Len(page.instances) :
        PageStep(PageDestroy(page, i), [NoCall EXCEPT !.op = "destroy", !.i = i])

\* The observer of instance i notifies: once after observe(), and when the
\* observed element has left the document.
PageObserverNotify ==
    /\ Ready
    /\ \E i \in 1..Len(page.instances) :
        /\ ~page.instances[i].destroyed
        /\ page.instances[i].isInitObservation \/ ~IsConnected(page, i)
        /\ PageStep(PageObserverCallback(page, i),
                    [NoCall EXCEPT !.op = "observer", !.i = i])

NextRegistry ==
    \/ Observed
    \/ PageAttach
    \/ PageBuild
    \/ PageCallDestroy
    \/ PageObserverNotify

SpecRegistry == Init /\ [][NextRegistry]_vars

\* ------------------------------------------- the distributed build (dist)

\* #scheduleCallback of src/dist/DoubleRange.js: the pending timeout is cleared
\* and a new one is armed; #duringDrag is not read.
DistScheduleCallback(s) ==
    LET cleared == [s EXCEPT !.timers = ClearTimeout(@, s.callbackTimer)]
        id == SetTimeoutId(cleared.timers)
    IN  [cleared EXCEPT !.callbackTimer = id, !.timers = @ \cup {id}]

\* setFrom(from, fireCallback) of the distributed build
DistSetFrom(s, from, fireCallback, ans) ==
    IF from < s.minValue \/ from > s.maxValue THEN [s EXCEPT !.ret = "false"]
    ELSE IF from >= s.toValue THEN [s EXCEPT !.ret = "false"]
    ELSE IF s.beforeFromChange /\ ~ans
    THEN [s EXCEPT !.ret = "false",
                   !.guardLog = Append(@, GuardEval("from", from, s.toValue, ans))]
    ELSE LET logged == IF s.beforeFromChange
                       THEN [s EXCEPT !.guardLog =
                                Append(@, GuardEval("from", from, s.toValue, ans))]
                       ELSE s
             written == [logged EXCEPT
                            !.fromValue = from,
                            !.fromThumb.valuenow = NumToString(from),
                            !.fromThumb.valuetext = Formatter(from),
                            !.ret = "this"]
         IN  IF fireCallback THEN DistScheduleCallback(written) ELSE written

\* setTo(to, fireCallback) of the distributed build
DistSetTo(s, to, fireCallback, ans) ==
    IF to < s.minValue \/ to > s.maxValue THEN [s EXCEPT !.ret = "false"]
    ELSE IF to <= s.fromValue THEN [s EXCEPT !.ret = "false"]
    ELSE IF s.beforeToChange /\ ~ans
    THEN [s EXCEPT !.ret = "false",
                   !.guardLog = Append(@, GuardEval("to", s.fromValue, to, ans))]
    ELSE LET logged == IF s.beforeToChange
                       THEN [s EXCEPT !.guardLog =
                                Append(@, GuardEval("to", s.fromValue, to, ans))]
                       ELSE s
             written == [logged EXCEPT
                            !.toValue = to,
                            !.toThumb.valuenow = NumToString(to),
                            !.toThumb.valuetext = Formatter(to),
                            !.ret = "this"]
         IN  IF fireCallback THEN DistScheduleCallback(written) ELSE written

\* #setValue(type, value) of the distributed build
DistSetValue(s, type, value, ans) ==
    IF type = "from" THEN DistSetFrom(s, value, TRUE, ans)
    ELSE DistSetTo(s, value, TRUE, ans)

\* #onDragStart(e, type) of the distributed build
DistOnDragStart(s, type) ==
    [s EXCEPT !.isDragging = type, !.duringDrag = TRUE,
              !.timers = ClearTimeout(@, s.callbackTimer),
              !.docListeners = TRUE]

\* #onDragMove(e) of the distributed build
DistOnDragMove(s, clientX, ans) ==
    IF s.isDragging = "null" THEN s
    ELSE IF clientX = 0 THEN s
    ELSE DistSetValue(s, s.isDragging, Snapped(s, clientX, TRUE), ans)

\* #onDragEnd() of the distributed build
DistOnDragEnd(s) ==
    IF s.isDragging = "null" THEN s
    ELSE DistScheduleCallback([s EXCEPT !.docListeners = FALSE,
                                        !.isDragging = "null",
                                        !.duringDrag = FALSE])

\* The timeout's closure of the distributed build, for a callback of behaviour
\* cb (nothing, or one call of a setter of the distributed build).
DistTimeoutClosure(s, cb, ans) ==
    LET after == IF cb.kind = "setFrom" THEN DistSetFrom(s, cb.v, cb.fire, ans)
                 ELSE IF cb.kind = "setTo" THEN DistSetTo(s, cb.v, cb.fire, ans)
                 ELSE s
    IN  [state |-> [after EXCEPT !.ret = "none"],
         delivered |-> <<[from |-> s.fromValue, to |-> s.toValue],
                         [from |-> after.fromValue, to |-> after.toValue]>>]

DistCallSetFrom ==
    /\ Ready
    /\ \E v \in Vals, fire \in BOOLEAN, ans \in Answers(beforeFromChange) :
        Install(DistSetFrom(Cur, v, fire, ans),
                [NoCall EXCEPT !.op = "setFrom", !.v = v, !.fire = fire],
                Cur)

DistCallSetTo ==
    /\ Ready
    /\ \E v \in Vals, fire \in BOOLEAN, ans \in Answers(beforeToChange) :
        Install(DistSetTo(Cur, v, fire, ans),
                [NoCall EXCEPT !.op = "setTo", !.v = v, !.fire = fire],
                Cur)

DistDragStart ==
    /\ Ready
    /\ thumbListeners
    /\ \E type \in {"from", "to"} :
        Install(DistOnDragStart(Cur, type),
                [NoCall EXCEPT !.op = "dragStart", !.type = type], Cur)

DistDragMove ==
    /\ Ready
    /\ docListeners
    /\ \E x \in PointerXs, ans \in BOOLEAN :
        /\ ans \in Answers(IF isDragging = "to" THEN beforeToChange
                           ELSE beforeFromChange)
        /\ Install(DistOnDragMove(Cur, x, ans),
                   [NoCall EXCEPT !.op = "dragMove", !.type = isDragging, !.x = x],
                   Cur)

DistDragEnd ==
    /\ Ready
    /\ docListeners
    /\ Install(DistOnDragEnd(Cur), [NoCall EXCEPT !.op = "dragEnd"], Cur)

DistTimerFire ==
    /\ Ready
    /\ \E id \in timers, cb \in CallbackBehaviours, ans \in BOOLEAN :
        /\ ans \in Answers(\/ cb.kind = "setFrom" /\ beforeFromChange
                           \/ cb.kind = "setTo" /\ beforeToChange)
        /\ LET run == DistTimeoutClosure([Cur EXCEPT !.timers = @ \ {id}], cb, ans)
           IN  Install(run.state,
                       [NoCall EXCEPT !.op = "timer", !.type = cb.kind, !.v = cb.v,
                                      !.fire = cb.fire, !.delivered = run.delivered],
                       Cur)

NextDist ==
    \/ Observed
    \/ DistCallSetFrom
    \/ DistCallSetTo
    \/ DistDragStart
    \/ DistDragMove
    \/ DistDragEnd
    \/ DistTimerFire

\* The widget of the distributed build: create() builds the same markup and the
\* constructor reads the same initial values from it.
SpecDist == Init /\ [][NextDist]_vars

\* The widget with the timer's progress assumed: an armed timeout that keeps
\* being armed expires in the end (the environment runs due timeouts), and the
\* record of an operation is always dropped.
NextLive ==
    \/ Observed
    \/ CallSetFrom
    \/ CallSetTo
    \/ CallDestroy
    \/ DragStart
    \/ DragMove
    \/ DragEnd
    \/ KeyDown
    \/ TimerFire

SpecLive ==
    /\ Init
    /\ [][NextLive]_vars
    /\ WF_vars(Observed)
    /\ SF_vars(TimerFire)

\* ------------------------------------------------------------------- readers

\* getFrom(), getTo(), getMin(), getMax()
GetFrom == fromValue
GetTo == toValue
GetMin == minValue
GetMax == maxValue

\* ------------------------------------------------------------------- claims

\* The state the last operation started in.
Pre == last.pre

\* The last operation evaluated the guard of that side on (f, t) and got res.
GuardAnswered(side, f, t, res) ==
    \E i \in 1..Len(last.guardLog) : last.guardLog[i] = GuardEval(side, f, t, res)

\* The last operation had a guard of that side answer false.
GuardVetoed(side) ==
    \E i \in 1..Len(last.guardLog) :
        last.guardLog[i].side = side /\ ~last.guardLog[i].res

\* The last operation left min, max, from and to as they were.
ValuesUnchanged ==
    /\ minValue = Pre.minValue
    /\ maxValue = Pre.maxValue
    /\ fromValue = Pre.fromValue
    /\ toValue = Pre.toValue

\* The last operation left the notification timer as it was.
TimerUnchanged == callbackTimer = Pre.callbackTimer /\ timers = Pre.timers

\* The last operation left the handles' accessibility attributes as they were.
AriaUnchanged == fromThumb = Pre.fromThumb /\ toThumb = Pre.toThumb

\* C1: in every reachable state min < max and min <= from < to <= max, whatever
\* sequence of setters, updates, drags, key presses, clicks, observer
\* notifications and destroy led to it.
C1_OrderingInvariant ==
    /\ minValue < maxValue
    /\ minValue <= fromValue
    /\ fromValue < toValue
    /\ toValue <= maxValue

\* C1 witness: a rejected setFrom has moved from by its corrective write.
C1_Witness ==
    /\ last.op = "setFrom"
    /\ last.ret = "false"
    /\ fromValue # Pre.fromValue
    /\ C1_OrderingInvariant

\* C2: setFrom(v) returns the instance, and getFrom() then returns v, exactly
\* when min <= v < to and the from-guard, if registered, answered true on
\* (v, to); in every other case it returns false.
C2_SetFromRoundTrip ==
    last.op = "setFrom" =>
        LET ok == /\ Pre.minValue <= last.v
                  /\ last.v < Pre.toValue
                  /\ Pre.beforeFromChange =>
                        GuardAnswered("from", last.v, Pre.toValue, TRUE)
        IN  /\ (last.ret = "this" /\ GetFrom = last.v) <=> ok
            /\ ~ok => last.ret = "false"

\* C2 witness: a guarded setFrom was accepted and changed from.
C2_Witness ==
    /\ last.op = "setFrom"
    /\ last.ret = "this"
    /\ Pre.beforeFromChange
    /\ GetFrom = last.v
    /\ Pre.fromValue # last.v

\* Whether the guard of that side, if registered, accepted the pair (f, t).
Accepts(side, registered, f, t) == registered => GuardAnswered(side, f, t, TRUE)

\* C3: setFrom(v) with to <= v <= max returns false and moves from to to - step
\* when to - step >= min and the from-guard accepts (to - step, to), and
\* otherwise leaves from alone; setTo(v) with min <= v <= from returns false and
\* moves to to from + step when from + step <= max and the to-guard accepts
\* (from, from + step), and otherwise leaves to alone; min, max and the
\* opposite handle do not change.
C3_CorrectiveWrite ==
    /\ (last.op = "setFrom" /\ Pre.toValue <= last.v /\ last.v <= Pre.maxValue) =>
        /\ last.ret = "false"
        /\ minValue = Pre.minValue /\ maxValue = Pre.maxValue
        /\ toValue = Pre.toValue
        /\ fromValue =
              IF /\ Pre.toValue - Pre.step >= Pre.minValue
                 /\ Accepts("from", Pre.beforeFromChange,
                            Pre.toValue - Pre.step, Pre.toValue)
              THEN Pre.toValue - Pre.step
              ELSE Pre.fromValue
    /\ (last.op = "setTo" /\ Pre.minValue <= last.v /\ last.v <= Pre.fromValue) =>
        /\ last.ret = "false"
        /\ minValue = Pre.minValue /\ maxValue = Pre.maxValue
        /\ fromValue = Pre.fromValue
        /\ toValue =
              IF /\ Pre.fromValue + Pre.step <= Pre.maxValue
                 /\ Accepts("to", Pre.beforeToChange,
                            Pre.fromValue, Pre.fromValue + Pre.step)
              THEN Pre.fromValue + Pre.step
              ELSE Pre.toValue

\* C3 witness: setTo(v) with v <= from was rejected and moved to to from + step.
C3_Witness ==
    /\ last.op = "setTo"
    /\ last.v <= Pre.fromValue
    /\ last.ret = "false"
    /\ toValue = Pre.fromValue + Pre.step
    /\ toValue # Pre.toValue

\* The merged state that update(o) validates is well ordered.
MergedValid(m) == m.min < m.max /\ m.min <= m.from /\ m.from < m.to /\ m.to <= m.max

\* C4: update(o) succeeds, applying exactly the merged min, max, from, to, when
\* the merged state has min < max and min <= from < to <= max; otherwise it
\* raises and min, max, from, to, the accessibility attributes and the timer are
\* all as before.
C4_UpdateAtomic ==
    last.op = "update" =>
        LET m == Merged(Pre, last.o) IN
        IF MergedValid(m)
        THEN /\ last.ret = "this"
             /\ minValue = m.min /\ maxValue = m.max
             /\ fromValue = m.from /\ toValue = m.to
        ELSE /\ last.ret = "RangeError"
             /\ ValuesUnchanged
             /\ AriaUnchanged
             /\ TimerUnchanged

\* C4 witness: update({min, max}) was rejected because the current from is
\* below the new min, with a timer pending.
C4_Witness ==
    /\ last.op = "update"
    /\ DOMAIN last.o = {"min", "max"}
    /\ last.o.min < last.o.max
    /\ Pre.fromValue < last.o.min
    /\ Pre.timers # {}
    /\ last.ret = "RangeError"

\* C5: setMin(v) succeeds with min = v exactly when v < max and v <= from, and
\* setMax(v) succeeds with max = v exactly when v > min and v >= to; otherwise
\* the call raises a RangeError and min, max, from, to and the timer are as
\* before.
C5_SetMinSetMax ==
    /\ last.op = "setMin" =>
        IF last.v < Pre.maxValue /\ last.v <= Pre.fromValue
        THEN /\ last.ret = "this"
             /\ minValue = last.v
        ELSE /\ last.ret = "RangeError"
             /\ ValuesUnchanged
             /\ TimerUnchanged
    /\ last.op = "setMax" =>
        IF last.v > Pre.minValue /\ last.v >= Pre.toValue
        THEN /\ last.ret = "this"
             /\ maxValue = last.v
        ELSE /\ last.ret = "RangeError"
             /\ ValuesUnchanged
             /\ TimerUnchanged

\* C5 witness: setMax(v) with min < v < to raised, a timer pending.
C5_Witness ==
    /\ last.op = "setMax"
    /\ last.v > Pre.minValue
    /\ last.v < Pre.toValue
    /\ Pre.timers # {}
    /\ last.ret = "RangeError"

\* C6: a setFrom(v) or setTo(v) rejected because v < min or v > max, or because
\* the guard of its side answered false, returns false and leaves min, max,
\* from, to, the accessibility attributes, the interaction state and the timer
\* as they were.
C6_RejectionNoEffect ==
    /\ (last.op = "setFrom" /\
          (last.v < Pre.minValue \/ last.v > Pre.maxValue \/ GuardVetoed("from"))) =>
        /\ last.ret = "false"
        /\ ValuesUnchanged /\ AriaUnchanged /\ TimerUnchanged
        /\ isDragging = Pre.isDragging /\ duringDrag = Pre.duringDrag
    /\ (last.op = "setTo" /\
          (last.v < Pre.minValue \/ last.v > Pre.maxValue \/ GuardVetoed("to"))) =>
        /\ last.ret = "false"
        /\ ValuesUnchanged /\ AriaUnchanged /\ TimerUnchanged
        /\ isDragging = Pre.isDragging /\ duringDrag = Pre.duringDrag

\* C6 witness: a setTo(v, true) with from < v <= max was vetoed by the guard
\* while a timer was pending.
C6_Witness ==
    /\ last.op = "setTo"
    /\ last.fire
    /\ GuardVetoed("to")
    /\ Pre.fromValue < last.v
    /\ last.v # Pre.toValue
    /\ Pre.timers # {}
    /\ last.ret = "false"

\* C7: setTo(v) returns the instance and sets to = v exactly when
\* from < v <= max and the to-guard, if registered, answered true on (from, v);
\* in particular it is not rejected because v equals the current to.
C7_SetToAccepts ==
    last.op = "setTo" =>
        ((last.ret = "this" /\ GetTo = last.v) <=>
            /\ Pre.fromValue < last.v
            /\ last.v <= Pre.maxValue
            /\ Pre.beforeToChange =>
                  GuardAnswered("to", Pre.fromValue, last.v, TRUE))

\* C8: with a guard registered for a side, that side's value changes only in an
\* operation that evaluated the guard on the new (from, to) pair and got true.
C8_GuardedChange ==
    /\ (beforeFromChange /\ fromValue # Pre.fromValue) =>
          GuardAnswered("from", fromValue, toValue, TRUE)
    /\ (beforeToChange /\ toValue # Pre.toValue) =>
          GuardAnswered("to", fromValue, toValue, TRUE)

\* C9: after create(config) the readers return config.min, config.max,
\* config.from and config.to.
C9_CreateReadsConfig ==
    last.op = "create" =>
        /\ GetMin = last.o.min
        /\ GetMax = last.o.max
        /\ GetFrom = last.o.from
        /\ GetTo = last.o.to

\* The last operation was an accepted mutation that asks for a notification.
AcceptedNotify ==
    \/ /\ last.op \in {"setFrom", "setTo", "setMin", "setMax", "update"}
       /\ last.fire
       /\ last.ret = "this"
    \/ /\ last.op \in {"key", "click"}
       /\ last.ret = "this"

\* C10: at most one notification timer is ever armed, and it is the one
\* #callbackTimer names; after an accepted notify-eligible mutation made while
\* no drag is in progress exactly that one timer is armed, whatever was pending
\* before; and when a timer expires the callback gets the from and to values
\* of that moment and no other timer remains armed (unless the callback itself
\* called a setter).  So a burst of mutations with no expiry between them is
\* followed by one callback, with the final pair.
C10_Debounce ==
    /\ Cardinality(timers) <= 1
    /\ timers # {} => timers = {callbackTimer}
    /\ (AcceptedNotify /\ ~duringDrag) => (callbackTimer # 0 /\ timers = {callbackTimer})
    /\ last.op = "timer" =>
        /\ last.type = "none" => timers = {}
        /\ last.delivered[1] = [from |-> Pre.fromValue, to |-> Pre.toValue]

\* C10 witness: an accepted mutation, made while idle with a timer already
\* pending, changed from and left one timer armed.
C10_Witness ==
    /\ AcceptedNotify
    /\ ~duringDrag
    /\ Pre.timers # {}
    /\ fromValue # Pre.fromValue
    /\ Cardinality(timers) = 1

\* C11: a drag start, any number of moves and a drag end produce exactly one
\* callback, after the drag end: no timer is armed after the drag start or
\* after a move, so no callback runs while the drag is in progress; the drag
\* end leaves exactly one timer armed; and its expiry (the callback leaving the
\* widget alone) leaves none.
C11_DragOneCallback ==
    /\ last.op \in {"dragStart", "dragMove"} => timers = {}
    /\ last.op = "timer" => Pre.isDragging = "null"
    /\ (last.op = "dragEnd" /\ Pre.isDragging # "null") =>
          /\ Cardinality(timers) = 1
          /\ timers = {callbackTimer}
          /\ isDragging = "null"
    /\ (last.op = "timer" /\ last.type = "none" /\ Pre.isDragging = "null") =>
          timers = {}

\* C11 witness: a move of an in-progress drag changed a value, a timer having
\* been pending when the drag started (its id is still in #callbackTimer), and
\* no timer is armed.
C11_Witness ==
    /\ last.op = "dragMove"
    /\ Pre.isDragging = "to"
    /\ toValue # Pre.toValue
    /\ Pre.callbackTimer # 0
    /\ timers = {}

\* C12: in every state in which a drag is in progress no notification timer is
\* pending.
C12_NoTimerWhileDragging ==
    (isDragging # "null" \/ duringDrag) => timers = {}

\* C12 witness: a programmatic setFrom(v, true) was accepted and changed from
\* while the to handle was being dragged, and no timer is armed.
C12_Witness ==
    /\ last.op = "setFrom"
    /\ last.fire
    /\ last.ret = "this"
    /\ fromValue # Pre.fromValue
    /\ isDragging = "to"
    /\ timers = {}

\* C13: at each expiry of the notification timer the (from, to) pair in the
\* range-change event equals the pair passed to the callback, whatever the
\* callback does.
C13_EventPairEqualsCallbackPair ==
    last.op = "timer" => last.delivered[2] = last.delivered[1]

\* The last operation is one after which a notification is due: the end of a
\* drag, or an accepted notify-eligible mutation made while idle.
NotifyDue ==
    \/ last.op = "dragEnd" /\ Pre.isDragging # "null"
    \/ AcceptedNotify /\ ~duringDrag

\* The last operation was the timer's expiry, and it passed the callback the
\* pair that was current when it expired.
DeliveredCurrent ==
    /\ last.op = "timer"
    /\ last.delivered[1] = [from |-> Pre.fromValue, to |-> Pre.toValue]

\* The last operation was a mutation, a drag start or a teardown after which no
\* notification is due.
Interfered ==
    /\ last.op \notin {"none", "timer", "create"}
    /\ \/ ~ValuesUnchanged
       \/ isDragging # Pre.isDragging
       \/ destroyed # Pre.destroyed
    /\ ~NotifyDue

\* C14: whenever a notification is due (a drag ended, or a notify-eligible
\* mutation was accepted while idle), the timer eventually expires and passes
\* the callback the pair current then - the final pair, since every later
\* change either makes a notification due again or is an interference - unless
\* a mutation that asks for no notification, a drag start or a teardown comes
\* first.
C14_EventuallyDelivered ==
    NotifyDue ~> (DeliveredCurrent \/ Interfered)

\* C14 witness: the timer armed by the end of a drag expired and passed the
\* callback the current pair.
C14_Witness ==
    /\ last.op = "timer"
    /\ last.delivered[1] = [from |-> Pre.fromValue, to |-> Pre.toValue]
    /\ Pre.callbackTimer # 0
    /\ ~Pre.duringDrag
    /\ Pre.timers = {Pre.callbackTimer}

\* C15: a setFrom, setTo, setMin, setMax or update called with
\* fireCallback = false leaves the notification timer as it was, whatever the
\* outcome of the call.
C15_SilentNoTimer ==
    (last.op \in {"setFrom", "setTo", "setMin", "setMax", "update"} /\ ~last.fire) =>
        TimerUnchanged

\* The snapped candidate of the last operation, a track click.
ClickCandidate == Snapped(Pre, last.x, FALSE)

\* The candidate's distances to the two handles before the click.
DistFrom == Abs(ClickCandidate - Pre.fromValue)
DistTo == Abs(ClickCandidate - Pre.toValue)

\* C16 (as claimed): on a track click whose candidate is equally far from the
\* from value and the to value, the from handle is the one that is moved: to
\* keeps its value, and from becomes the candidate unless its guard vetoes.
C16_TieMovesFrom ==
    (last.op = "click" /\ DistFrom = DistTo) =>
        /\ toValue = Pre.toValue
        /\ ~GuardVetoed("from") => fromValue = ClickCandidate

\* C16 (amended): on a track click whose candidate is equally far from the from
\* value and the to value, the to handle is the one that is moved: from keeps
\* its value, and to becomes the candidate when the to-guard, if registered,
\* accepts (from, candidate), and keeps its value otherwise.
C16_TieMovesTo ==
    (last.op = "click" /\ DistFrom = DistTo) =>
        /\ fromValue = Pre.fromValue
        /\ toValue = IF Accepts("to", Pre.beforeToChange, Pre.fromValue, ClickCandidate)
                     THEN ClickCandidate
                     ELSE Pre.toValue

\* C16 witness: a click at equal distances moved to to the candidate.
C16_Witness ==
    /\ last.op = "click"
    /\ DistFrom = DistTo
    /\ toValue = ClickCandidate
    /\ toValue # Pre.toValue

\* The candidate of the last operation, a track click, is within [min, max].
CandidateInRange ==
    Pre.minValue <= ClickCandidate /\ ClickCandidate <= Pre.maxValue

\* Exactly the notification timer #callbackTimer names is armed.
TimerArmed == callbackTimer # 0 /\ timers = {callbackTimer}

\* C17 (as claimed): a track click whose candidate c is within [min, max] and
\* strictly nearer to one handle moves that handle to c, leaves the other
\* handle, min and max alone, and arms the timer when the handle's value
\* changed.
C17_ClickMovesNearer ==
    (last.op = "click" /\ CandidateInRange) =>
        /\ minValue = Pre.minValue /\ maxValue = Pre.maxValue
        /\ DistFrom < DistTo =>
              /\ fromValue = ClickCandidate
              /\ toValue = Pre.toValue
              /\ fromValue # Pre.fromValue => TimerArmed
        /\ DistTo < DistFrom =>
              /\ toValue = ClickCandidate
              /\ fromValue = Pre.fromValue
              /\ toValue # Pre.toValue => TimerArmed

\* C17 (amended): a track click whose candidate c is within [min, max] and
\* strictly nearer to one handle moves that handle to c when the handle's
\* guard, if registered, accepts the new pair, and otherwise leaves it; the
\* other handle, min and max keep their values; and when the handle's value
\* changed and no drag is in progress, the timer is armed.
C17_ClickMovesNearerGuarded ==
    (last.op = "click" /\ CandidateInRange) =>
        /\ minValue = Pre.minValue /\ maxValue = Pre.maxValue
        /\ DistFrom < DistTo =>
              /\ fromValue =
                    IF Accepts("from", Pre.beforeFromChange, ClickCandidate, Pre.toValue)
                    THEN ClickCandidate
                    ELSE Pre.fromValue
              /\ toValue = Pre.toValue
              /\ (fromValue # Pre.fromValue /\ ~duringDrag) => TimerArmed
        /\ DistTo < DistFrom =>
              /\ toValue =
                    IF \/ ClickCandidate = Pre.toValue
                       \/ Accepts("to", Pre.beforeToChange, Pre.fromValue, ClickCandidate)
                    THEN ClickCandidate
                    ELSE Pre.toValue
              /\ fromValue = Pre.fromValue
              /\ (toValue # Pre.toValue /\ ~duringDrag) => TimerArmed

\* C17 witness: a click nearer to the to handle moved to to the candidate and
\* armed the timer, none having been pending.
C17_Witness ==
    /\ last.op = "click"
    /\ CandidateInRange
    /\ DistTo < DistFrom
    /\ toValue = ClickCandidate
    /\ toValue # Pre.toValue
    /\ Pre.timers = {}
    /\ TimerArmed

\* The pair (from, to) after the handle of that side took the value v.
PairWith(side, v) ==
    IF side = "from" THEN [from |-> v, to |-> Pre.toValue]
    ELSE [from |-> Pre.fromValue, to |-> v]

\* A key press that asks the focused handle for the value v, v being within
\* [min, max]: when the pair keeps from < to and the guard accepts it, the
\* handle takes the value v and the other handle keeps its value.
KeyStepTaken(side, v) ==
    LET pair == PairWith(side, v) IN
    (/\ pair.from < pair.to
     /\ Accepts(side, IF side = "from" THEN Pre.beforeFromChange
                      ELSE Pre.beforeToChange, pair.from, pair.to)) =>
        /\ fromValue = pair.from
        /\ toValue = pair.to
        /\ minValue = Pre.minValue /\ maxValue = Pre.maxValue

\* C18: with no drag in progress, ArrowLeft/ArrowDown on a handle sets its value
\* to value - step when value - step >= min, the result keeps from < to and the
\* guard does not veto; ArrowRight/ArrowUp sets it to value + step when
\* value + step <= max under the same conditions; beyond min (resp. max) the
\* key changes no value and leaves the timer as it was; any other key changes
\* nothing.
C18_ArrowKeys ==
    (last.op = "key" /\ Pre.isDragging = "null") =>
        LET value == GetValue(Pre, last.type) IN
        /\ last.key \in {"ArrowLeft", "ArrowDown"} =>
              IF value - Pre.step >= Pre.minValue
              THEN KeyStepTaken(last.type, value - Pre.step)
              ELSE ValuesUnchanged /\ TimerUnchanged
        /\ last.key \in {"ArrowRight", "ArrowUp"} =>
              IF value + Pre.step <= Pre.maxValue
              THEN KeyStepTaken(last.type, value + Pre.step)
              ELSE ValuesUnchanged /\ TimerUnchanged
        /\ last.key \notin {"ArrowLeft", "ArrowDown", "ArrowRight", "ArrowUp"} =>
              ValuesUnchanged /\ TimerUnchanged /\ AriaUnchanged

\* C18 witness: ArrowDown on the from handle, one step above min, moved it to
\* min.
C18_Witness ==
    /\ last.op = "key"
    /\ Pre.isDragging = "null"
    /\ last.key = "ArrowDown"
    /\ last.type = "from"
    /\ Pre.fromValue - Pre.step = Pre.minValue
    /\ fromValue = Pre.minValue

\* C19: after destroy() returns, whatever the state it was called in, no drag
\* is in progress, no handle, track or document listener is attached, no
\* notification timer is pending, the observation has ended and the registry
\* holds no entry for the widget.
C19_DestroyLeavesNothing ==
    last.op = "destroy" =>
        /\ isDragging = "null"
        /\ ~duringDrag
        /\ ~thumbListeners
        /\ ~docListeners
        /\ timers = {}
        /\ ~modifyObserver
        /\ ~map

\* C20: destroy() on a destroyed instance raises nothing and changes nothing: no
\* listener, timer, observer, registry entry or value differs from before.
C20_DestroyIdempotent ==
    (last.op = "destroy" /\ Pre.destroyed) =>
        /\ last.ret = "none"
        /\ Cur = Pre

\* C20 witness: destroy() was called on a destroyed instance that had a timer
\* pending, and the timer is still pending.
C20_Witness ==
    /\ last.op = "destroy"
    /\ Pre.destroyed
    /\ Pre.timers # {}
    /\ timers = Pre.timers

\* C23: a notification of the observer that finds the host element out of the
\* document tears the widget down, leaving the state destroy() would leave; the
\* first notification after binding included.
C23_RemovalTearsDown ==
    (last.op = "observer" /\ ~last.isConnected) =>
        /\ destroyed
        /\ [Cur EXCEPT !.isInitObservation = Pre.isInitObservation] = Destroy(Pre)

\* The handles' accessibility attributes agree with the model.
AriaInSync ==
    /\ fromThumb.valuemin = NumToString(minValue)
    /\ toThumb.valuemin = NumToString(minValue)
    /\ fromThumb.valuemax = NumToString(maxValue)
    /\ toThumb.valuemax = NumToString(maxValue)
    /\ fromThumb.valuenow = NumToString(fromValue)
    /\ toThumb.valuenow = NumToString(toValue)
    /\ fromThumb.valuetext = Formatter(fromValue)
    /\ toThumb.valuetext = Formatter(toValue)

\* C24: after binding and after every mutation the handles' aria-valuemin,
\* aria-valuemax, aria-valuenow and aria-valuetext agree with min, max, from
\* and to.
C24_AriaInSync == AriaInSync

\* C28: the interaction state is Idle after binding; a pointer-down on a handle
\* makes it the dragged one from any state; a pointer-up makes the state Idle;
\* the move and up handlers run in an Idle state change nothing; and only
\* pointer-down, pointer-up and teardown change the interaction state.
C28_InteractionStates ==
    /\ last.op = "create" => isDragging = "null"
    /\ last.op = "dragStart" => isDragging = last.type
    /\ last.op = "dragEnd" => isDragging = "null"
    /\ duringDrag <=> isDragging # "null"
    /\ isDragging = "null" =>
          /\ OnDragEnd(Cur) = Cur
          /\ \A x \in PointerXs, ans \in BOOLEAN : OnDragMove(Cur, x, ans) = Cur
    /\ isDragging # Pre.isDragging =>
          \/ last.op \in {"dragStart", "dragEnd", "destroy"}
          \/ last.op = "observer" /\ destroyed

\* C28 witness: a pointer-down on the to handle, the from handle being dragged,
\* made to the dragged handle.
C28_Witness ==
    /\ last.op = "dragStart"
    /\ Pre.isDragging = "from"
    /\ last.type = "to"
    /\ isDragging = "to"

\* C29: every move received while dragging invokes the dragged handle's setter
\* with the snapped candidate of the clamped pointer position, whatever the
\* pointer's x-coordinate: the state after the move is the state the setter
\* leaves.
C29_MoveInvokesSetter ==
    (last.op = "dragMove" /\ Pre.isDragging # "null") =>
        \E ans \in BOOLEAN :
            LET r == SetValue(Pre, Pre.isDragging, Snapped(Pre, last.x, TRUE), ans)
            IN  /\ [Cur EXCEPT !.ret = r.ret, !.guardLog = r.guardLog,
                               !.nested = r.nested] = r
                /\ last.guardLog = r.guardLog

\* C27: in the distributed build no notification timer is armed, and no
\* callback is delivered, between a drag start and the matching drag end.
C27_DistNoTimerWhileDragging ==
    /\ isDragging # "null" => timers = {}
    /\ last.op = "timer" => Pre.isDragging = "null"

\* Instance i is bound to container c: it was constructed on c and its
\* '.double-range' element is the one c holds.
BoundTo(p, i, c) ==
    /\ p.instances[i].container = c
    /\ p.instances[i].div = p.div[c]

\* Instance i has not been torn down.
Live(p, i) == ~p.instances[i].destroyed

\* Container c holds a live widget the registry knows.
HasLiveWidget(p, c) ==
    \E i \in 1..Len(p.instances) :
        BoundTo(p, i, c) /\ Live(p, i) /\ GetByContainer(p, c) = i

\* C21: binding (attach with new DoubleRange(config), build with
\* DoubleRange.create(config)) to a container that already has a live,
\* registered widget raises an error, creates no instance and leaves the
\* existing widget and the registry as they were.
C21_DoubleBindingRejected ==
    (last.op \in {"attach", "build"} /\ HasLiveWidget(last.page, last.c)) =>
        /\ last.threw
        /\ page.instances = last.page.instances
        /\ page.map = last.page.map
        /\ page.div = last.page.div

\* C22: for every container the registry lookup returns an instance exactly
\* when that instance is bound to the container and has not been torn down,
\* and tearing an instance down removes no other live instance's entry.
C22_LookupIffBoundAndLive ==
    /\ \A c \in Containers, i \in 1..Len(page.instances) :
          GetByContainer(page, c) = i <=> (BoundTo(page, i, c) /\ Live(page, i))
    /\ last.op = "destroy" =>
          \A j \in 1..Len(page.instances) :
              (j # last.i /\ Live(last.page, j)
                  /\ MapGet(last.page, DivEl(last.page.instances[j].div)) = j)
              => MapGet(page, DivEl(page.instances[j].div)) = j

\* The number attach mode is to start with: the attribute's when the attribute
\* is present, else the configuration's.
AttributeElseConfig(attr, configured) ==
    IF attr # <<>> THEN ParseFloat(attr).val ELSE configured

\* C25: in attach mode the initial min, max, from and to are read from the
\* markup's attributes when present, and a value whose attribute is absent is
\* the configuration's (config.min, config.max, config.from, config.to).
C25_AttachReadsAttributesElseConfig ==
    last.op = "attach" =>
        /\ minValue = AttributeElseConfig(last.m.fromThumb.valuemin, last.o.min)
        /\ maxValue = AttributeElseConfig(last.m.fromThumb.valuemax, last.o.max)
        /\ fromValue = AttributeElseConfig(last.m.fromThumb.valuenow, last.o.from)
        /\ toValue = AttributeElseConfig(last.m.toThumb.valuenow, last.o.to)

\* The layout has just run on two visible labels.
LaidOut == last.op = "layout" /\ labels.visible

\* The labels' combined width exceeds the distance of their nominal positions.
Crowded == labels.from.width + labels.to.width > labels.to.nominal - labels.from.nominal

\* Both rendered label boxes lie within the container and do not overlap.
Contained ==
    /\ FromRect(labels).left >= labels.divRect.left
    /\ ToRect(labels).left + ToRect(labels).width
           <= labels.divRect.left + labels.divRect.width
    /\ FromRect(labels).left + FromRect(labels).width <= ToRect(labels).left

\* C26 as stated: for any container width and any crowded pair of labels, after
\* one run of the layout both label boxes lie within the container and do not
\* overlap.
C26_Containment == (LaidOut /\ Crowded) => Contained

\* C26 amended: the same for every container at least as wide as the two
\* labels together.
C26_ContainmentWhenRoom ==
    (LaidOut /\ Crowded
        /\ labels.from.width + labels.to.width <= labels.divRect.width)
    => Contained

C26_Witness ==
    /\ LaidOut
    /\ Crowded
    /\ labels.from.width + labels.to.width <= labels.divRect.width
    /\ labels.hasLabelsCollision
    /\ labels.toShift < 0
    /\ labels.fromShift < 0

\* C30: the three passes run in the order centre collision, right overflow,
\* left overflow, and each decides on the label boxes as rendered with every
\* shift of the earlier passes applied.
C30_PassesReadCurrentBoxes ==
    LaidOut =>
        /\ [k \in 1..Len(labels.passes) |-> labels.passes[k].name]
               = <<"centre", "right", "left">>
        /\ \A k \in 1..Len(labels.passes) :
              /\ labels.passes[k].fromRead = labels.passes[k].fromRendered
              /\ labels.passes[k].toRead = labels.passes[k].toRendered

\* C31: a resize notification for a host element still in the document
\* recaches the geometry, and leaves min, max, from, to, step, the interaction
\* state, the pending notification timer and the registry as they were.
C31_ResizeRecachesOnly ==
    last.op = "resize" =>
        /\ trackRect = last.rect
        /\ ValuesUnchanged
        /\ step = Pre.step
        /\ isDragging = Pre.isDragging
        /\ duringDrag = Pre.duringDrag
        /\ TimerUnchanged
        /\ map = Pre.map
        /\ destroyed = Pre.destroyed

\* C32: the document-level move/up listeners are attached exactly while a drag
\* is in progress (the interaction state is not idle, equivalently the
\* during-drag flag is set), and never after teardown.
C32_DocListenersIffDragging ==
    /\ docListeners <=> isDragging # "null"
    /\ docListeners <=> duringDrag
    /\ destroyed => ~docListeners

\* destroy() was called in the middle of a drag and detached the listeners.
C32_Witness ==
    /\ last.op = "destroy"
    /\ Pre.docListeners
    /\ Pre.isDragging = "to"
    /\ ~docListeners

\* The value of the handle of that side in state s.
HandleValue(s, side) == IF side = "from" THEN s.fromValue ELSE s.toValue

\* The other side.
OtherSide(side) == IF side = "from" THEN "to" ELSE "from"

\* C36: an ArrowLeft/ArrowDown press never increases the focused handle's
\* value, an ArrowRight/ArrowUp press never decreases it, and a key press
\* never changes the other handle's value.
C36_KeysMoveOneWay ==
    last.op = "key" =>
        /\ last.key \in {"ArrowLeft", "ArrowDown"}
              => HandleValue(Cur, last.type) <= HandleValue(Pre, last.type)
        /\ last.key \in {"ArrowRight", "ArrowUp"}
              => HandleValue(Cur, last.type) >= HandleValue(Pre, last.type)
        /\ HandleValue(Cur, OtherSide(last.type))
               = HandleValue(Pre, OtherSide(last.type))

\* C37: a key press after which from and to are what they were leaves the
\* notification timer untouched.
C37_KeyWithoutChangeKeepsTimer ==
    (last.op = "key" /\ fromValue = Pre.fromValue /\ toValue = Pre.toValue)
        => TimerUnchanged

\* C38: after destroy() has returned no callback is invoked and no
\* range-change event is dispatched, whatever public methods or input events
\* follow.
C38_NoDeliveryAfterDestroy ==
    (last.op = "timer" /\ last.delivered # <<>>) => ~Pre.destroyed

\* C33: min < max and min <= from < to <= max also hold when a guard, while
\* setFrom or setTo evaluates it, calls the widget's public mutators before it
\* answers.
C33_OrderingWithReentrantGuards ==
    last.op \in {"setFrom", "setTo"} =>
        /\ minValue < maxValue
        /\ minValue <= fromValue
        /\ fromValue < toValue
        /\ toValue <= maxValue

\* C34: attach mode (new DoubleRange(config) on existing markup), when it
\* raises no error, yields min < max and min <= from < to <= max, whatever the
\* markup's attributes and the configuration's values.
C34_AttachYieldsValidState ==
    last.op = "attach" =>
        /\ minValue < maxValue
        /\ minValue <= fromValue
        /\ fromValue < toValue
        /\ toValue <= maxValue

\* C39: the snapped candidate a move of a drag computes from the clamped
\* percent lies within [min, max], whether or not step divides max - min, and
\* a pointer at or beyond the right end of the track yields max.
C39_SnappedWithinBounds ==
    (last.op = "dragMove" /\ Pre.isDragging # "null" /\ last.x # 0) =>
        LET candidate == Snapped(Pre, last.x, TRUE)
        IN  /\ candidate >= Pre.minValue
            /\ candidate <= Pre.maxValue
            /\ last.x >= Pre.trackRect.left + Pre.trackRect.width
                  => candidate = Pre.maxValue

\* The two outcomes of one setter call agree: the same result and the same
\* min, max, from and to.
SameOutcome(a, b) ==
    /\ a.ret = b.ret
    /\ a.minValue = b.minValue
    /\ a.maxValue = b.maxValue
    /\ a.fromValue = b.fromValue
    /\ a.toValue = b.toValue

\* C40: started in the same state, setFrom(v) and setTo(v) of the distributed
\* build return the same result and leave the same min, max, from and to as
\* those of the source.
C40_DistSettersAgree ==
    /\ last.op = "setFrom" =>
          \A ans \in Answers(Pre.beforeFromChange) :
              SameOutcome(SetFrom(Pre, last.v, last.fire, ans),
                          DistSetFrom(Pre, last.v, last.fire, ans))
    /\ last.op = "setTo" =>
          \A ans \in Answers(Pre.beforeToChange) :
              SameOutcome(SetTo(Pre, last.v, last.fire, ans),
                          DistSetTo(Pre, last.v, last.fire, ans))

\* C35: every call of setFrom or setTo returns, after at most one nested
\* corrective self-call, in every state reachable from a configuration
\* create() accepts, whatever step it accepted.
C35_SettersTerminate ==
    last.op \in {"setFrom", "setTo"} =>
        /\ last.ret \in {"this", "false"}
        /\ last.nested <= 1

====
